---- MODULE Spec2Model ----
(***************************************************************************)
(* A model of the storage device graph of anaconda (storage/devices.py):   *)
(* Device / StorageDevice and the composite device kinds, their lifecycle  *)
(* operations (create, destroy, setup, teardown), the child-count          *)
(* bookkeeping, format assignment and the LVM size accounting.             *)
(*                                                                         *)
(* Python's tri-state exists flag is modelled by the strings "None",       *)
(* "False" and "True"; sizes are whole megabytes.  Calls into external     *)
(* collaborators (formats, lvm, mdraid, parted, udev) are recorded as      *)
(* events of the running operation; what they answer is an input of the    *)
(* operation (the record env).                                             *)
(***************************************************************************)
EXTENDS Integers, Sequences, FiniteSets, TLC

VARIABLES
    kind,          \* device -> class of the device ("none": not constructed)
    parents,       \* device -> sequence of parent devices (Device.parents)
    kids,          \* device -> child count (Device.kids)
    exists,        \* device -> "None" | "False" | "True" (StorageDevice.exists)
    sysfsPath,     \* device -> TRUE iff StorageDevice.sysfsPath is non-empty
    lvs,           \* volume group / thin pool -> sequence of its LVs (_lvs)
    pvCount,       \* volume group -> pvCount
    hasDuplicate,  \* volume group -> hasDuplicate
    calls,         \* events of the last operation, in program order
    last           \* the last operation: what, on which device, how it ended

gvars == <<kind, parents, kids, exists, sysfsPath, lvs, pvCount, hasDuplicate>>

VARIABLES
    format,        \* device -> its _format: a format object, or "None"
    fmtStatus,     \* format object -> what its status property answers
    fmtDevice,     \* format object -> its device attribute (a path, or NoPath)
    allocated      \* the format objects getFormat(None, ...) has made so far

fvars == <<format, fmtStatus, fmtDevice, allocated>>

VARIABLES
    rawCalls,      \* number of addChild() / removeChild() calls made by callers
                   \* of the device classes (the device tree)
    size,          \* device -> _size (MB)
    targetSize,    \* device -> _targetSize (MB)
    attrs          \* device -> the values its constructor was given

svars == <<size, targetSize, attrs>>

\* ------------------------------------------------------------------------
\* Python values
\* ------------------------------------------------------------------------

\* Truth value of the exists flag in "if self.exists" / "if not self.exists".
Truthy(e) == e = "True"

\* ------------------------------------------------------------------------
\* Outcome of a (part of a) method: how it ended and the events it issued.
\* An exception ends the method; the events issued before it stay issued.
\* ------------------------------------------------------------------------

Ev(n, d) == [e |-> n, d |-> d]

Ok(c) == [res |-> "ok", calls |-> c]

Raise(x, c) == [res |-> x, calls |-> c]

Then(a, b) ==
    IF a.res = "ok" THEN [res |-> b.res, calls |-> a.calls \o b.calls] ELSE a

\* A call of an external tool: it is issued, and fails when the environment
\* makes the tools fail.
Tool(n, d, err, env) ==
    IF env.toolOk THEN Ok(<<Ev(n, d)>>) ELSE Raise(err, <<Ev(n, d)>>)

\* A call that cannot fail in the model (a format hook, udev_settle).
Call(n, d) == Ok(<<Ev(n, d)>>)

CallIf(c, n, d) == IF c THEN Call(n, d) ELSE Ok(<<>>)

\* What the environment can answer during one operation.
Envs == [status : BOOLEAN, toolOk : BOOLEAN, nodeOk : BOOLEAN, fmtExists : BOOLEAN]

\* ------------------------------------------------------------------------
\* Device kinds and simple properties
\* ------------------------------------------------------------------------

\* Classes that use LVMLogicalVolumeDevice's lifecycle methods.
LVKinds == {"lv", "thinpool", "thinlv"}

isleaf(d) == kids[d] = 0

\* LVMLogicalVolumeDevice.vg / LVMThinLogicalVolumeDevice.vg
vgOf(d) == IF kind[d] = "thinlv" THEN parents[parents[d][1]][1] ELSE parents[d][1]

\* LVMVolumeGroupDevice.complete
complete(vg, ex) ==
    IF hasDuplicate[vg] THEN FALSE
    ELSE Len(parents[vg]) = pvCount[vg] \/ ~Truthy(ex[vg])

\* The status property of each class.  env.status is what the system answers
\* for a device node / device-mapper map / md array state.
RECURSIVE status(_, _, _)
status(d, env, ex) ==
    CASE kind[d] \in {"luks"} \cup LVKinds -> env.status
      [] kind[d] = "vg" ->
            IF ~Truthy(ex[d]) THEN FALSE
            ELSE IF \E i \in 1..Len(lvs[d]) : status(lvs[d][i], env, ex) THEN TRUE
            ELSE IF \E i \in 1..Len(parents[d]) : ~status(parents[d][i], env, ex) THEN FALSE
            ELSE complete(d, ex)
      [] OTHER -> Truthy(ex[d]) /\ env.status

\* ------------------------------------------------------------------------
\* setup
\* ------------------------------------------------------------------------

RECURSIVE setup(_, _, _, _)
RECURSIVE setupAll(_, _, _, _)

\* "for parent in ...: parent.setup(orig=orig)" over a sequence of devices
setupAll(ps, orig, env, ex) ==
    IF ps = <<>> THEN Ok(<<>>)
    ELSE Then(setup(Head(ps), orig, env, ex), setupAll(Tail(ps), orig, env, ex))

\* Device.setupParents
setupParents(d, orig, env, ex) == setupAll(parents[d], orig, env, ex)

\* "for parent in self.parents: parent.[original]format.setup()"
parentFormatSetup(ps, orig) ==
    [i \in 1..Len(ps) |->
        Ev(IF orig THEN "originalFormat.setup" ELSE "format.setup", ps[i])]

StorageDevice_setup(d, orig, env, ex) ==
    IF ~Truthy(ex[d]) THEN Raise("DeviceError", <<>>)
    ELSE Then(setupParents(d, orig, env, ex), Ok(parentFormatSetup(parents[d], orig)))

DiskDevice_setup(d, orig, env, ex) ==
    IF ~env.nodeOk THEN Raise("DeviceError", <<>>) ELSE Ok(<<>>)

LUKSDevice_setup(d, orig, env, ex) ==
    IF ~Truthy(ex[d]) THEN Raise("DeviceError", <<>>)
    ELSE Then(setup(parents[d][1], orig, env, ex),
              Ok(parentFormatSetup(<<parents[d][1]>>, orig)
                 \o <<Ev("udev_settle", d), Ev("probeSize", d)>>))

LVMVolumeGroupDevice_setup(d, orig, env, ex) ==
    IF ~Truthy(ex[d]) THEN Raise("DeviceError", <<>>)
    ELSE IF status(d, env, ex) THEN Ok(<<>>)
    ELSE IF ~complete(d, ex) THEN Raise("DeviceError", <<>>)
    ELSE setupParents(d, orig, env, ex)

\* LVMLogicalVolumeDevice.setup without "if self.status: return"
LVMLogicalVolumeDevice_setup_again(d, orig, env, ex) ==
    IF ~Truthy(ex[d]) THEN Raise("DeviceError", <<>>)
    ELSE Then(setup(vgOf(d), orig, env, ex),
         Then(Tool("lvm.lvactivate", d, "LVMError", env),
              Call("probeSize", d)))

LVMLogicalVolumeDevice_setup(d, orig, env, ex) ==
    IF ~Truthy(ex[d]) THEN Raise("DeviceError", <<>>)
    ELSE IF status(d, env, ex) THEN Ok(<<>>)
    ELSE Then(setup(vgOf(d), orig, env, ex),
         Then(Tool("lvm.lvactivate", d, "LVMError", env),
              Call("probeSize", d)))

MDRaidArrayDevice_setup(d, orig, env, ex) ==
    IF ~Truthy(ex[d]) THEN Raise("DeviceError", <<>>)
    ELSE IF status(d, env, ex) THEN Ok(<<>>)
    ELSE Then(setupAll(parents[d], orig, env, ex),
         Then(Tool("mdraid.mdactivate", d, "MDRaidError", env),
              Ok(<<Ev("udev_settle", d), Ev("probeSize", d)>>)))

FileDevice_setup(d, orig, env, ex) ==
    Then(StorageDevice_setup(d, orig, env, ex), Ok(parentFormatSetup(parents[d], orig)))

\* The setup method a device of each class runs; every call is announced by
\* a "setup" event.
setup(d, orig, env, ex) ==
    Then(Call("setup", d),
         CASE kind[d] = "disk" -> DiskDevice_setup(d, orig, env, ex)
           [] kind[d] = "luks" -> LUKSDevice_setup(d, orig, env, ex)
           [] kind[d] = "vg" -> LVMVolumeGroupDevice_setup(d, orig, env, ex)
           [] kind[d] \in LVKinds -> LVMLogicalVolumeDevice_setup(d, orig, env, ex)
           [] kind[d] = "md" -> MDRaidArrayDevice_setup(d, orig, env, ex)
           [] kind[d] \in {"file", "dir"} -> FileDevice_setup(d, orig, env, ex)
           [] OTHER -> StorageDevice_setup(d, orig, env, ex))

\* ------------------------------------------------------------------------
\* teardown
\* ------------------------------------------------------------------------

RECURSIVE teardown(_, _, _, _)
RECURSIVE teardownAll(_, _, _, _)

teardownAll(ps, recursive, env, ex) ==
    IF ps = <<>> THEN Ok(<<>>)
    ELSE Then(teardown(Head(ps), recursive, env, ex), teardownAll(Tail(ps), recursive, env, ex))

\* Device.teardownParents
teardownParents(d, recursive, env, ex) == teardownAll(parents[d], recursive, env, ex)

\* "if self.originalFormat.exists: ...teardown(); if self.format.exists: ..."
formatTeardown(d, env) ==
    IF env.fmtExists
    THEN <<Ev("originalFormat.teardown", d), Ev("format.teardown", d)>>
    ELSE <<>>

StorageDevice_teardown(d, recursive, env, ex) ==
    IF ~Truthy(ex[d]) /\ ~recursive THEN Raise("DeviceError", <<>>)
    ELSE Then(IF status(d, env, ex)
              THEN Ok(formatTeardown(d, env) \o <<Ev("udev_settle", d)>>)
              ELSE Ok(<<>>),
              IF recursive THEN teardownParents(d, recursive, env, ex) ELSE Ok(<<>>))

PartitionDevice_teardown(d, recursive, env, ex) ==
    IF ~Truthy(ex[d]) /\ ~recursive THEN Raise("DeviceError", <<>>)
    ELSE Then(IF status(d, env, ex) THEN Ok(formatTeardown(d, env)) ELSE Ok(<<>>),
              StorageDevice_teardown(d, recursive, env, ex))

LUKSDevice_teardown(d, recursive, env, ex) ==
    IF ~Truthy(ex[d]) /\ ~recursive THEN Raise("DeviceError", <<>>)
    ELSE Then(IF status(d, env, ex)
              THEN Ok(formatTeardown(d, env) \o <<Ev("udev_settle", d)>>)
              ELSE Ok(<<>>),
         Then(IF env.fmtExists
              THEN Ok(<<Ev("originalFormat.teardown", parents[d][1]),
                        Ev("udev_settle", d),
                        Ev("format.teardown", parents[d][1]),
                        Ev("udev_settle", d)>>)
              ELSE Ok(<<>>),
              IF recursive THEN teardownParents(d, recursive, env, ex) ELSE Ok(<<>>)))

LVMVolumeGroupDevice_teardown(d, recursive, env, ex) ==
    IF ~Truthy(ex[d]) /\ ~recursive THEN Raise("DeviceError", <<>>)
    ELSE Then(IF status(d, env, ex)
              THEN Tool("lvm.vgdeactivate", d, "LVMError", env)
              ELSE Ok(<<>>),
              IF recursive THEN teardownParents(d, recursive, env, ex) ELSE Ok(<<>>))

\* The recursive part swallows whatever the volume group's teardown raises.
LVMLogicalVolumeDevice_teardown(d, recursive, env, ex) ==
    IF ~Truthy(ex[d]) /\ ~recursive THEN Raise("DeviceError", <<>>)
    ELSE Then(IF status(d, env, ex)
              THEN Ok(formatTeardown(d, env) \o <<Ev("udev_settle", d)>>)
              ELSE Ok(<<>>),
         Then(IF status(d, env, ex)
              THEN Tool("lvm.lvdeactivate", d, "LVMError", env)
              ELSE Ok(<<>>),
              IF recursive
              THEN Ok(teardown(vgOf(d), recursive, env, ex).calls)
              ELSE Ok(<<>>)))

MDRaidArrayDevice_teardown(d, recursive, env, ex) ==
    IF ~Truthy(ex[d]) /\ ~recursive THEN Raise("DeviceError", <<>>)
    ELSE Then(IF status(d, env, ex)
              THEN Ok(formatTeardown(d, env) \o <<Ev("udev_settle", d)>>)
              ELSE Ok(<<>>),
         Then(IF Truthy(ex[d]) /\ env.nodeOk
              THEN Tool("mdraid.mddeactivate", d, "MDRaidError", env)
              ELSE Ok(<<>>),
              IF recursive THEN teardownParents(d, recursive, env, ex) ELSE Ok(<<>>)))

\* FileDevice.teardown calls StorageDevice.teardown(self): never recursive.
FileDevice_teardown(d, recursive, env, ex) == StorageDevice_teardown(d, FALSE, env, ex)

teardown(d, recursive, env, ex) ==
    Then(Call("teardown", d),
         CASE kind[d] = "partition" -> PartitionDevice_teardown(d, recursive, env, ex)
           [] kind[d] = "luks" -> LUKSDevice_teardown(d, recursive, env, ex)
           [] kind[d] = "vg" -> LVMVolumeGroupDevice_teardown(d, recursive, env, ex)
           [] kind[d] \in LVKinds -> LVMLogicalVolumeDevice_teardown(d, recursive, env, ex)
           [] kind[d] = "md" -> MDRaidArrayDevice_teardown(d, recursive, env, ex)
           [] kind[d] \in {"file", "dir"} -> FileDevice_teardown(d, recursive, env, ex)
           [] OTHER -> StorageDevice_teardown(d, recursive, env, ex))

\* ------------------------------------------------------------------------
\* create
\* ------------------------------------------------------------------------

\* createParents without its check of the parents
createParents_unchecked(d, ex) == Ok(<<>>)

\* Device.createParents: recursive creation is disabled; it only checks.
createParents(d, ex) ==
    IF \E i \in 1..Len(parents[d]) : ~Truthy(ex[parents[d][i]])
    THEN Raise("DeviceError", <<>>)
    ELSE Ok(<<>>)

\* The exists flags once "self.exists = True" has run on d.
Created(d, ex) == [ex EXCEPT ![d] = "True"]

\* "self.exists = True; self.setup()"
markAndSetup(d, env, ex) ==
    Then(Call("exists=True", d), setup(d, FALSE, env, Created(d, ex)))

StorageDevice_create(d, env, ex) ==
    IF Truthy(ex[d]) THEN Raise("DeviceError", <<>>)
    ELSE Then(createParents(d, ex),
         Then(setupParents(d, FALSE, env, ex),
              markAndSetup(d, env, ex)))

\* The commit of the disk label; when it fails the partition is taken out of
\* (create) or put back into (destroy) the in-memory label and the error is
\* raised again.
commitOrUndo(d, undo, env) ==
    LET commit == IF undo = "originalFormat.addPartition"
                  THEN "originalFormat.commit" ELSE "disklabel.commit"
    IN  IF env.toolOk
        THEN Ok(<<Ev(commit, d)>>)
        ELSE Raise("DiskLabelCommitError", <<Ev(commit, d), Ev(undo, d)>>)

\* PartitionDevice.create without the handler of the commit error
PartitionDevice_create_noRollback(d, env, ex) ==
    IF Truthy(ex[d]) THEN Raise("DeviceError", <<>>)
    ELSE Then(createParents(d, ex),
         Then(setupParents(d, FALSE, env, ex),
         Then(Call("disklabel.addPartition", d),
         Then(Tool("disklabel.commit", d, "DiskLabelCommitError", env),
         Then(Call("DeviceFormat.destroy", d),
              markAndSetup(d, env, ex))))))

PartitionDevice_create(d, env, ex) ==
    IF Truthy(ex[d]) THEN Raise("DeviceError", <<>>)
    ELSE Then(createParents(d, ex),
         Then(setupParents(d, FALSE, env, ex),
         Then(Call("disklabel.addPartition", d),
         Then(commitOrUndo(d, "disklabel.removePartition", env),
         Then(Call("DeviceFormat.destroy", d),
              markAndSetup(d, env, ex))))))

LUKSDevice_create(d, env, ex) ==
    IF Truthy(ex[d]) THEN Raise("DeviceError", <<>>)
    ELSE Then(createParents(d, ex),
         Then(setupParents(d, FALSE, env, ex),
              markAndSetup(d, env, ex)))

\* LVMVolumeGroupDevice.create with "self.exists = True" moved in front of
\* lvm.vgcreate
LVMVolumeGroupDevice_create_markedFirst(d, env, ex) ==
    IF Truthy(ex[d]) THEN Raise("DeviceError", <<>>)
    ELSE Then(createParents(d, ex),
         Then(setupParents(d, FALSE, env, ex),
         Then(Call("exists=True", d),
         Then(Tool("lvm.vgcreate", d, "LVMError", env),
              setup(d, FALSE, env, Created(d, ex))))))

LVMVolumeGroupDevice_create(d, env, ex) ==
    IF Truthy(ex[d]) THEN Raise("DeviceError", <<>>)
    ELSE Then(createParents(d, ex),
         Then(setupParents(d, FALSE, env, ex),
         Then(Tool("lvm.vgcreate", d, "LVMError", env),
              markAndSetup(d, env, ex))))

\* _preCreate asks for the group's live free space (a failure of the query
\* is logged and ignored); a thin volume skips it.
LV_preCreate(d) == CallIf(kind[d] # "thinlv", "lvm.vginfo", d)

\* _create of the three logical volume classes
LV_create(d, env) ==
    Tool(CASE kind[d] = "thinpool" -> "lvm.thinpoolcreate"
           [] kind[d] = "thinlv" -> "lvm.thinlvcreate"
           [] OTHER -> "lvm.lvcreate",
         d, "LVMError", env)

\* LVMLogicalVolumeDevice.create without its check of exists
LVMLogicalVolumeDevice_create_unchecked(d, env, ex) ==
    Then(createParents(d, ex),
    Then(setupParents(d, FALSE, env, ex),
    Then(LV_preCreate(d),
    Then(LV_create(d, env),
         markAndSetup(d, env, ex)))))

LVMLogicalVolumeDevice_create(d, env, ex) ==
    IF Truthy(ex[d]) THEN Raise("DeviceError", <<>>)
    ELSE Then(createParents(d, ex),
         Then(setupParents(d, FALSE, env, ex),
         Then(LV_preCreate(d),
         Then(LV_create(d, env),
              markAndSetup(d, env, ex)))))

MDRaidArrayDevice_create(d, env, ex) ==
    IF Truthy(ex[d]) THEN Raise("DeviceError", <<>>)
    ELSE Then(createParents(d, ex),
         Then(setupParents(d, FALSE, env, ex),
         Then(Tool("mdraid.mdcreate", d, "MDRaidError", env),
         Then(markAndSetup(d, env, ex),
              Ok(<<Ev("udev_settle", d), Ev("updateSysfsPath", d)>>)))))

\* FileDevice.create closes fd in its finally clause: when anything raised
\* before os.open returned, fd is unbound and that is the error that leaves.
FileDevice_create(d, env, ex) ==
    IF Truthy(ex[d]) THEN Raise("DeviceError", <<>>)
    ELSE LET pre == Then(createParents(d, ex), setupParents(d, FALSE, env, ex))
         IN  IF pre.res # "ok" THEN Raise("UnboundLocalError", pre.calls)
             ELSE IF ~env.toolOk
                  THEN Raise("UnboundLocalError", pre.calls \o <<Ev("os.open", d)>>)
                  ELSE Ok(pre.calls \o <<Ev("os.open", d), Ev("os.write", d),
                                        Ev("exists=True", d), Ev("os.close", d)>>)

DirectoryDevice_create(d, env, ex) ==
    IF Truthy(ex[d]) THEN Raise("DeviceError", <<>>)
    ELSE Then(createParents(d, ex),
         Then(setupParents(d, FALSE, env, ex),
         Then(Tool("iutil.mkdirChain", d, "DeviceError", env),
              Call("exists=True", d))))

create(d, env, ex) ==
    CASE kind[d] = "partition" -> PartitionDevice_create(d, env, ex)
      [] kind[d] = "luks" -> LUKSDevice_create(d, env, ex)
      [] kind[d] = "vg" -> LVMVolumeGroupDevice_create(d, env, ex)
      [] kind[d] \in LVKinds -> LVMLogicalVolumeDevice_create(d, env, ex)
      [] kind[d] = "md" -> MDRaidArrayDevice_create(d, env, ex)
      [] kind[d] = "file" -> FileDevice_create(d, env, ex)
      [] kind[d] = "dir" -> DirectoryDevice_create(d, env, ex)
      [] OTHER -> StorageDevice_create(d, env, ex)

\* ------------------------------------------------------------------------
\* destroy
\* ------------------------------------------------------------------------

\* StorageDevice.destroy with the loop over the parents it has commented
\* out ("for parent in self.parents: parent.removeChild()") put back
StorageDevice_destroy_removeChild(d, env, ex) ==
    IF ~Truthy(ex[d]) THEN Raise("DeviceError", <<>>)
    ELSE IF ~isleaf(d) THEN Raise("DeviceError", <<>>)
    ELSE Ok(<<Ev("exists=False", d)>>
            \o [i \in 1..Len(parents[d]) |-> Ev("removeChild", parents[d][i])])

StorageDevice_destroy(d, env, ex) ==
    IF ~Truthy(ex[d]) THEN Raise("DeviceError", <<>>)
    ELSE IF ~isleaf(d) THEN Raise("DeviceError", <<>>)
    ELSE Call("exists=False", d)

\* mediaPresent is what parted answers for the disk (env.nodeOk).
DiskDevice_destroy(d, env, ex) ==
    IF ~env.nodeOk THEN Raise("DeviceError", <<>>)
    ELSE teardown(d, FALSE, env, ex)

\* PartitionDevice.destroy working on the current label
PartitionDevice_destroy_current(d, env, ex) ==
    IF ~Truthy(ex[d]) THEN Raise("DeviceError", <<>>)
    ELSE IF ~sysfsPath[d] THEN Ok(<<>>)
    ELSE IF ~isleaf(d) THEN Raise("DeviceError", <<>>)
    ELSE Then(setupParents(d, TRUE, env, ex),
         Then(Call("disklabel.removePartition", d),
         Then(commitOrUndo(d, "disklabel.addPartition", env),
              Call("exists=False", d))))

PartitionDevice_destroy(d, env, ex) ==
    IF ~Truthy(ex[d]) THEN Raise("DeviceError", <<>>)
    ELSE IF ~sysfsPath[d] THEN Ok(<<>>)
    ELSE IF ~isleaf(d) THEN Raise("DeviceError", <<>>)
    ELSE Then(setupParents(d, TRUE, env, ex),
         Then(Call("originalFormat.removePartition", d),
         Then(commitOrUndo(d, "originalFormat.addPartition", env),
              Call("exists=False", d))))

LUKSDevice_destroy(d, env, ex) ==
    Then(Ok(<<Ev("format.teardown", d), Ev("udev_settle", d)>>),
         teardown(d, FALSE, env, ex))

\* LVMVolumeGroupDevice.destroy without "self.setupParents(orig=True)"
LVMVolumeGroupDevice_destroy_unprepared(d, env, ex) ==
    IF ~Truthy(ex[d]) THEN Raise("DeviceError", <<>>)
    ELSE IF env.toolOk
         THEN Ok(<<Ev("lvm.vgreduce", d), Ev("lvm.vgremove", d),
                   Ev("exists=False", d)>>)
         ELSE Raise("DeviceError", <<Ev("lvm.vgreduce", d), Ev("exists=False", d)>>)

\* The removal is tried inside try/finally: exists is cleared in every case.
LVMVolumeGroupDevice_destroy(d, env, ex) ==
    IF ~Truthy(ex[d]) THEN Raise("DeviceError", <<>>)
    ELSE Then(setupParents(d, TRUE, env, ex),
              IF env.toolOk
              THEN Ok(<<Ev("lvm.vgreduce", d), Ev("lvm.vgremove", d),
                        Ev("exists=False", d)>>)
              ELSE Raise("DeviceError", <<Ev("lvm.vgreduce", d), Ev("exists=False", d)>>))

LVMLogicalVolumeDevice_destroy(d, env, ex) ==
    IF ~Truthy(ex[d]) THEN Raise("DeviceError", <<>>)
    ELSE Then(teardown(d, FALSE, env, ex),
         Then(setupParents(vgOf(d), TRUE, env, ex),
         Then(Tool("lvm.lvremove", d, "LVMError", env),
              Call("exists=False", d))))

MDRaidArrayDevice_destroy(d, env, ex) ==
    IF ~Truthy(ex[d]) THEN Raise("DeviceError", <<>>)
    ELSE Then(teardown(d, FALSE, env, ex), Call("exists=False", d))

\* FileDevice.destroy and DirectoryDevice.destroy
FileDevice_destroy(d, env, ex) ==
    IF ~Truthy(ex[d]) THEN Raise("DeviceError", <<>>)
    ELSE Then(Tool("os.unlink", d, "OSError", env), Call("exists=False", d))

destroy(d, env, ex) ==
    CASE kind[d] = "disk" -> DiskDevice_destroy(d, env, ex)
      [] kind[d] = "partition" -> PartitionDevice_destroy(d, env, ex)
      [] kind[d] = "luks" -> LUKSDevice_destroy(d, env, ex)
      [] kind[d] = "vg" -> LVMVolumeGroupDevice_destroy(d, env, ex)
      [] kind[d] \in LVKinds -> LVMLogicalVolumeDevice_destroy(d, env, ex)
      [] kind[d] = "md" -> MDRaidArrayDevice_destroy(d, env, ex)
      [] kind[d] \in {"file", "dir"} -> FileDevice_destroy(d, env, ex)
      [] OTHER -> StorageDevice_destroy(d, env, ex)

\* ------------------------------------------------------------------------
\* The exists flags after an operation: every "self.exists = ..." that ran
\* is an event of the operation.
\* ------------------------------------------------------------------------

RECURSIVE applyMarks(_, _)
applyMarks(ex, cs) ==
    IF cs = <<>> THEN ex
    ELSE LET c == Head(cs)
         IN  applyMarks(CASE c.e = "exists=True" -> [ex EXCEPT ![c.d] = "True"]
                          [] c.e = "exists=False" -> [ex EXCEPT ![c.d] = "False"]
                          [] OTHER -> ex,
                        Tail(cs))

\* The child counts after an operation: every addChild() / removeChild()
\* that ran is an event of the operation.
RECURSIVE applyChildCalls(_, _)
applyChildCalls(ks, cs) ==
    IF cs = <<>> THEN ks
    ELSE LET c == Head(cs)
         IN  applyChildCalls(CASE c.e = "addChild" -> [ks EXCEPT ![c.d] = @ + 1]
                               [] c.e = "removeChild" -> [ks EXCEPT ![c.d] = @ - 1]
                               [] OTHER -> ks,
                             Tail(cs))

\* ------------------------------------------------------------------------
\* Lifecycle specification: create() and destroy() on constructed device
\* graphs.  Each graph is a record [kind, parents, lvs].
\*
\*   GraphPart : disk0 <- part1 <- luks0 <- sd1
\*   GraphLvm  : pv0 <- vg0 <- lv0 <- file0,  vg0 <- pool0 <- thin0
\*   GraphMd   : pv0 <- md0 <- sd0 <- sd1,  sd0 <- dir0
\*   GraphLeaf : disk0 <- part0
\* ------------------------------------------------------------------------

GraphPart ==
    [kind |-> [disk0 |-> "disk", part1 |-> "partition", luks0 |-> "luks",
               sd1 |-> "storage"],
     parents |-> [disk0 |-> <<>>, part1 |-> <<"disk0">>, luks0 |-> <<"part1">>,
                  sd1 |-> <<"luks0">>],
     lvs |-> [disk0 |-> <<>>, part1 |-> <<>>, luks0 |-> <<>>, sd1 |-> <<>>]]

GraphLvm ==
    [kind |-> [pv0 |-> "storage", vg0 |-> "vg", lv0 |-> "lv", file0 |-> "file",
               pool0 |-> "thinpool", thin0 |-> "thinlv"],
     parents |-> [pv0 |-> <<>>, vg0 |-> <<"pv0">>, lv0 |-> <<"vg0">>,
                  file0 |-> <<"lv0">>, pool0 |-> <<"vg0">>, thin0 |-> <<"pool0">>],
     lvs |-> [pv0 |-> <<>>, vg0 |-> <<"lv0", "pool0", "thin0">>, lv0 |-> <<>>,
              file0 |-> <<>>, pool0 |-> <<"thin0">>, thin0 |-> <<>>]]

GraphMd ==
    [kind |-> [pv0 |-> "storage", md0 |-> "md", sd0 |-> "storage",
               sd1 |-> "storage", dir0 |-> "dir"],
     parents |-> [pv0 |-> <<>>, md0 |-> <<"pv0">>, sd0 |-> <<"md0">>,
                  sd1 |-> <<"sd0">>, dir0 |-> <<"sd0">>],
     lvs |-> [pv0 |-> <<>>, md0 |-> <<>>, sd0 |-> <<>>, sd1 |-> <<>>,
              dir0 |-> <<>>]]

GraphLeaf ==
    [kind |-> [disk0 |-> "disk", part0 |-> "partition"],
     parents |-> [disk0 |-> <<>>, part0 |-> <<"disk0">>],
     lvs |-> [disk0 |-> <<>>, part0 |-> <<>>]]

LifeGraphs == {GraphPart, GraphLvm, GraphMd, GraphLeaf}

\* Device.__init__ calls addChild() on every parent: the child count a
\* constructed graph starts with.
Occurrences(ps, d) ==
    Cardinality({x \in UNION {{<<c, i>> : i \in 1..Len(ps[c])} : c \in DOMAIN ps} :
                    ps[x[1]][x[2]] = d})

\* The exists flags a graph is constructed with: a discovered system
\* (everything exists) or a planned one, with exists passed as False or left
\* at its default (None; True for a DiskDevice).
LifeExists(g) ==
    { [d \in DOMAIN g.kind |-> IF g.kind[d] = "disk" THEN "True" ELSE e] :
        e \in {"None", "False", "True"} }

\* The format variables of a specification that assigns no format.
FormatIdle ==
    /\ format = <<>>
    /\ fmtStatus = <<>>
    /\ fmtDevice = <<>>
    /\ allocated = {}

\* The size variables of a specification that leaves sizes alone.
SizeIdle ==
    /\ size = <<>>
    /\ targetSize = <<>>
    /\ attrs = <<>>

NoOp == [op |-> "init", dev |-> "none", res |-> "ok", pre |-> "n/a",
         cd |-> "n/a", kidsPre |-> <<>>]

Init ==
    \E g \in LifeGraphs :
        /\ kind = g.kind
        /\ parents = g.parents
        /\ kids = [d \in DOMAIN g.kind |-> Occurrences(g.parents, d)]
        /\ exists \in LifeExists(g)
        /\ sysfsPath \in { [d \in DOMAIN g.kind |-> g.kind[d] # "partition" \/ b] :
                             b \in BOOLEAN }
        /\ lvs = g.lvs
        /\ pvCount = [d \in DOMAIN g.kind |-> Len(g.parents[d])]
        /\ hasDuplicate = [d \in DOMAIN g.kind |-> FALSE]
        /\ calls = <<>>
        /\ last = NoOp
        /\ FormatIdle
        /\ rawCalls = 0
        /\ SizeIdle

\* d.create()
Create(d) ==
    \E env \in Envs :
        LET o == create(d, env, exists)
        IN  /\ exists' = applyMarks(exists, o.calls)
            /\ calls' = o.calls
            /\ last' = [op |-> "create", dev |-> d, res |-> o.res,
                        pre |-> exists[d], cd |-> "n/a", kidsPre |-> kids]
            /\ kids' = applyChildCalls(kids, o.calls)
            /\ UNCHANGED <<kind, parents, sysfsPath, lvs, pvCount, hasDuplicate>>
            /\ UNCHANGED <<fvars, rawCalls, svars>>

\* d.destroy().  last.cd is the exists flag d had before create() when this
\* destroy() comes right after a create() of d that returned normally.
Destroy(d) ==
    \E env \in Envs :
        LET o == destroy(d, env, exists)
            follows == last.op = "create" /\ last.dev = d /\ last.res = "ok"
        IN  /\ exists' = applyMarks(exists, o.calls)
            /\ calls' = o.calls
            /\ last' = [op |-> "destroy", dev |-> d, res |-> o.res,
                        pre |-> exists[d],
                        cd |-> IF follows THEN last.pre ELSE "n/a",
                        kidsPre |-> IF follows THEN last.kidsPre ELSE kids]
            /\ kids' = applyChildCalls(kids, o.calls)
            /\ UNCHANGED <<kind, parents, sysfsPath, lvs, pvCount, hasDuplicate>>
            /\ UNCHANGED <<fvars, rawCalls, svars>>

CreateAny == \E d \in DOMAIN kind : Create(d)

DestroyAny == \E d \in DOMAIN kind : Destroy(d)

Next == CreateAny \/ DestroyAny

vars == <<kind, parents, kids, exists, sysfsPath, lvs, pvCount, hasDuplicate, calls, last,
          format, fmtStatus, fmtDevice, allocated, rawCalls, size, targetSize, attrs>>

Spec == Init /\ [][Next]_vars

\* ------------------------------------------------------------------------
\* Properties of the lifecycle
\* ------------------------------------------------------------------------

\* C1: destroy() on a device of any kind whose child count is greater than
\* zero fails with DeviceError, issues no external removal call and leaves
\* the exists flag as it was.
C1_DestroyNonLeafFails ==
    (last.op = "destroy" /\ kids[last.dev] > 0) =>
        /\ last.res = "DeviceError"
        /\ \A i \in 1..Len(calls) :
              calls[i].e \notin {"lvm.lvremove", "lvm.vgremove", "lvm.vgreduce",
                                 "originalFormat.removePartition", "os.unlink"}
        /\ exists[last.dev] = last.pre

\* C1, the case the claim singles out: an existing thin pool that still has
\* a thin logical volume child was destroyed: lvremove ran, destroy()
\* returned normally and exists is now False.
C1_ThinPoolDestroyed ==
    /\ last.op = "destroy" /\ kind[last.dev] = "thinpool" /\ kids[last.dev] > 0
    /\ last.pre = "True" /\ last.res = "ok" /\ exists[last.dev] = "False"
    /\ \E i \in 1..Len(calls) : calls[i] = Ev("lvm.lvremove", last.dev)

\* C2: create() on a device of a kind that tracks existence whose exists flag
\* is true fails with DeviceError, issues no call at all (no parent is
\* touched, no tool is run) and changes nothing of the device graph.
C2_NoDoubleCreate ==
    [][(last'.op = "create" /\ last'.dev \in DOMAIN kind
            /\ kind[last'.dev] # "disk" /\ exists[last'.dev] = "True"
            /\ last'.pre = "True")
        => (last'.res = "DeviceError" /\ calls' = <<>> /\ UNCHANGED gvars)]_vars

C2_Witness ==
    /\ last.op = "create" /\ last.pre = "True" /\ last.res = "DeviceError"
    /\ kind[last.dev] = "md" /\ calls = <<>>

C4_CreateDestroy ==
    (last.op = "destroy" /\ last.cd # "n/a" /\ kind[last.dev] = "storage") =>
        /\ kids = last.kidsPre
        /\ IF last.kidsPre[last.dev] = 0
           THEN last.res = "ok" /\ exists[last.dev] = "False"
           ELSE last.res = "DeviceError" /\ exists[last.dev] = "True"

C4_Witness ==
    /\ last.op = "destroy" /\ last.cd = "None" /\ kind[last.dev] = "storage"
    /\ last.res = "ok" /\ exists[last.dev] = "False"
    /\ Len(parents[last.dev]) > 0 /\ kids = last.kidsPre

\* C4 (as the specification has it): create() followed immediately by
\* destroy() on a StorageDevice leaves exists equal to its value before
\* create() (None or False) and the child count of every parent as it was.
C4_RoundTrip ==
    (last.op = "destroy" /\ last.cd # "n/a" /\ kind[last.dev] = "storage"
        /\ last.res = "ok") =>
        /\ exists[last.dev] = last.cd
        /\ \A i \in 1..Len(parents[last.dev]) :
              kids[parents[last.dev][i]] = last.kidsPre[parents[last.dev][i]]

\* ------------------------------------------------------------------------
\* Format assignment specification: "device.format = f" on devices whose
\* constructor has reached its own "self.format = format"
\* ------------------------------------------------------------------------

\* Format objects the caller passes in, and the ones getFormat(None, ...)
\* can still make.
UserFormats == {"ext4", "swap"}

DefaultFormats == {"default1", "default2"}

\* The device attribute of a format made without a device.
NoPath == <<>>

\* StorageDevice.path / PartitionDevice.path
path(d) == <<"/dev", d>>

\* StorageDevice._setFormat without its check of the current format
StorageDevice_setFormat_unchecked(d, f, fresh) ==
    LET new == IF f = "None" THEN fresh ELSE f
    IN  [res |-> "ok",
         format |-> [format EXCEPT ![d] = new],
         fmtDevice |-> [fmtDevice EXCEPT ![new] = path(d)]]

\* StorageDevice._setFormat(f), also reached through PartitionDevice._setFormat.
\* fresh is the object getFormat(None, device=self.path, ...) returns when f is
\* None.  The result is how the call ended and the format references and
\* device attributes it leaves.
StorageDevice_setFormat(d, f, fresh) ==
    LET new == IF f = "None" THEN fresh ELSE f
    IN  IF format[d] # "None" /\ fmtStatus[format[d]]
        THEN [res |-> "DeviceError", format |-> format, fmtDevice |-> fmtDevice]
        ELSE [res |-> "ok",
              format |-> [format EXCEPT ![d] = new],
              fmtDevice |-> [fmtDevice EXCEPT ![new] = path(d)]]

InitFormat ==
    /\ kind = [sda |-> "storage", sda1 |-> "partition"]
    /\ parents = [sda |-> <<>>, sda1 |-> <<"sda">>]
    /\ kids = [sda |-> 1, sda1 |-> 0]
    /\ exists \in {[sda |-> e, sda1 |-> e] : e \in {"None", "True"}}
    /\ sysfsPath = [sda |-> TRUE, sda1 |-> TRUE]
    /\ lvs = [sda |-> <<>>, sda1 |-> <<>>]
    /\ pvCount = [sda |-> 0, sda1 |-> 1]
    /\ hasDuplicate = [sda |-> FALSE, sda1 |-> FALSE]
    /\ calls = <<>>
    /\ last = NoOp
    /\ format = [sda |-> "None", sda1 |-> "None"]
    /\ fmtStatus = [f \in UserFormats \cup DefaultFormats |-> FALSE]
    /\ fmtDevice = [f \in UserFormats \cup DefaultFormats |-> NoPath]
    /\ allocated = {}
    /\ rawCalls = 0
    /\ SizeIdle

\* d.format = f
SetFormat(d, f) ==
    \E fresh \in IF f = "None" THEN DefaultFormats \ allocated ELSE {f} :
        LET o == StorageDevice_setFormat(d, f, fresh)
        IN  /\ format' = o.format
            /\ fmtDevice' = o.fmtDevice
            /\ allocated' = IF f = "None" /\ o.res = "ok"
                            THEN allocated \cup {fresh} ELSE allocated
            /\ last' = [op |-> "_setFormat", dev |-> d, res |-> o.res,
                        pre |-> format[d], cd |-> f, kidsPre |-> <<>>]
            /\ UNCHANGED <<gvars, calls, fmtStatus, rawCalls, svars>>

\* A format in use is set up or torn down: its status answer changes.
FormatStatusChange(f) ==
    /\ \E d \in DOMAIN format : format[d] = f
    /\ fmtStatus' = [fmtStatus EXCEPT ![f] = ~@]
    /\ UNCHANGED <<gvars, calls, last, format, fmtDevice, allocated, rawCalls, svars>>

SetFormatAny == \E d \in DOMAIN format, f \in UserFormats \cup {"None"} : SetFormat(d, f)

FormatStatusChangeAny == \E f \in UserFormats \cup DefaultFormats : FormatStatusChange(f)

NextFormat == SetFormatAny \/ FormatStatusChangeAny

SpecFormat == InitFormat /\ [][NextFormat]_vars

\* C5: assigning a format to a device whose current format reports status
\* true fails with DeviceError and leaves every format reference and every
\* format's device path as they were; when the current format is absent or
\* inactive the assignment takes effect: the device refers to the new format
\* (a default one when None was assigned) and that format's device path is
\* the device's path.
C5_SetFormat ==
    [][\A d \in DOMAIN format, f \in UserFormats \cup {"None"} :
          SetFormat(d, f) =>
              IF format[d] # "None" /\ fmtStatus[format[d]]
              THEN /\ last'.res = "DeviceError"
                   /\ format' = format
                   /\ fmtDevice' = fmtDevice
              ELSE /\ last'.res = "ok"
                   /\ IF f = "None"
                      THEN format'[d] \in DefaultFormats \ allocated
                      ELSE format'[d] = f
                   /\ fmtDevice'[format'[d]] = path(d)
                   /\ \A x \in DOMAIN format : x # d => format'[x] = format[x]]_vars

C5_Witness ==
    /\ last.op = "_setFormat" /\ last.res = "DeviceError"
    /\ last.pre # "None" /\ last.cd # last.pre
    /\ format[last.dev] = last.pre /\ fmtStatus[last.pre]
    /\ fmtDevice[last.pre] = path(last.dev)

\* ------------------------------------------------------------------------
\* Device graph specification: constructors, partition disk assignment,
\* member add/remove of volume groups and arrays, and addChild() /
\* removeChild() called from outside
\* ------------------------------------------------------------------------

MaxKids == 2

MaxRawCalls == 1

\* Device.addChild
addChild(ks, d) == [ks EXCEPT ![d] = @ + 1]

\* Device.removeChild
removeChild(ks, d) == [ks EXCEPT ![d] = @ - 1]

\* "for parent in self.parents: parent.addChild()"
RECURSIVE addChildren(_, _)
addChildren(ks, ps) ==
    IF ps = <<>> THEN ks ELSE addChildren(addChild(ks, Head(ps)), Tail(ps))

\* "for dev in self.parents: dev.removeChild()"
RECURSIVE removeChildren(_, _)
removeChildren(ks, ps) ==
    IF ps = <<>> THEN ks ELSE removeChildren(removeChild(ks, Head(ps)), Tail(ps))

\* "x in list"
In(x, l) == \E i \in 1..Len(l) : l[i] = x

\* list.remove(x): the first x leaves the list
RECURSIVE ListRemove(_, _)
ListRemove(l, x) ==
    IF l = <<>> THEN <<>>
    ELSE IF Head(l) = x THEN Tail(l)
    ELSE <<Head(l)>> \o ListRemove(Tail(l), x)

\* The devices that can be constructed, and the parent lists a constructor
\* can be given for each: the partition is on the disk, and is the member a
\* volume group or an array can have.
GraphCatalogue ==
    [sda |-> "disk", p1 |-> "partition", vg0 |-> "vg", md0 |-> "md"]

ParentLists(d) ==
    CASE GraphCatalogue[d] = "disk" -> {<<>>}
      [] GraphCatalogue[d] = "partition" -> {<<>>, <<"sda">>}
      [] OTHER -> {<<>>, <<"p1">>}

\* The graph fields an operation leaves, with how it ended.
Graph(res, k, ps, ks, ex, pvc, dup) ==
    [res |-> res, kind |-> k, parents |-> ps, kids |-> ks, exists |-> ex,
     pvCount |-> pvc, hasDuplicate |-> dup]

\* An operation that raised before it changed anything.
GraphRaise(x) == Graph(x, kind, parents, kids, exists, pvCount, hasDuplicate)

\* Device.__init__ / StorageDevice.__init__ of a new device d of class k
Device_init(d, k, ps, e) ==
    Graph("ok", kind @@ (d :> k), parents @@ (d :> ps),
          addChildren(kids @@ (d :> 0), ps), exists @@ (d :> e),
          pvCount @@ (d :> 0), hasDuplicate @@ (d :> FALSE))

\* PartitionDevice.__init__: a request (not exists) gives its parents back;
\* an existing partition looks itself up through self.disk, which is None
\* when it was given no parent.
PartitionDevice_init(d, ps, e) ==
    LET g == Device_init(d, "partition", ps, e)
    IN  IF Truthy(e) /\ ps = <<>> THEN GraphRaise("AttributeError")
        ELSE IF ~Truthy(e)
        THEN [g EXCEPT !.kids = removeChildren(g.kids, ps),
                       !.parents = [g.parents EXCEPT ![d] = <<>>]]
        ELSE g

\* LVMVolumeGroupDevice.__init__ that keeps the pvCount argument for a new
\* volume group too
LVMVolumeGroupDevice_init_counted(d, ps, e, pvOk, pvc) ==
    IF ~pvOk THEN GraphRaise("ValueError")
    ELSE LET g == Device_init(d, "vg", ps, e)
         IN  [g EXCEPT !.pvCount = [g.pvCount EXCEPT ![d] = pvc]]

\* LVMVolumeGroupDevice.__init__.  pvOk: every parent holds a PV format;
\* pvc: the pvCount argument.
LVMVolumeGroupDevice_init(d, ps, e, pvOk, pvc) ==
    IF ~pvOk THEN GraphRaise("ValueError")
    ELSE LET g == Device_init(d, "vg", ps, e)
         IN  [g EXCEPT !.pvCount = [g.pvCount EXCEPT ![d] =
                                       IF ~Truthy(e) THEN Len(ps) ELSE pvc]]

\* MDRaidArrayDevice.__init__.  minMembers is what
\* mdraid.get_raid_min_members answers for the level: the check comes after
\* StorageDevice.__init__ has counted the new device as a child.
MDRaidArrayDevice_init(d, ps, e, minMembers) ==
    LET g == Device_init(d, "md", ps, e)
    IN  IF ~Truthy(e) /\ ps # <<>> /\ Len(ps) < minMembers
        THEN [GraphRaise("ValueError") EXCEPT !.kids = addChildren(kids, ps)]
        ELSE g

\* PartitionDevice._setDisk(disk); disk is a device or "None"
PartitionDevice_setDisk(d, disk) ==
    LET ks == IF parents[d] # <<>> THEN removeChild(kids, parents[d][1]) ELSE kids
    IN  IF disk # "None"
        THEN Graph("ok", kind, [parents EXCEPT ![d] = <<disk>>], addChild(ks, disk),
                   exists, pvCount, hasDuplicate)
        ELSE Graph("ok", kind, [parents EXCEPT ![d] = <<>>], ks,
                   exists, pvCount, hasDuplicate)

\* The calls an operation of the graph made, with its outcome.
Called(g, cs) == g @@ [calls |-> cs]

\* LVMVolumeGroupDevice._addDevice(device) that goes by the number of
\* physical volumes alone when it decides to set up the group.
LVMVolumeGroupDevice_addDevice_counting(d, device, pvOk, hasUuid, uuidDiffers, setupOk) ==
    IF ~Truthy(exists[d]) THEN Called(GraphRaise("DeviceError"), <<>>)
    ELSE IF ~pvOk THEN Called(GraphRaise("ValueError"), <<>>)
    ELSE LET dup == [hasDuplicate EXCEPT ![d] = @ \/ (hasUuid /\ uuidDiffers)]
             ps == [parents EXCEPT ![d] = Append(@, device)]
             up == Len(ps[d]) = pvCount[d]
         IN  IF In(device, parents[d])
             THEN Called([GraphRaise("ValueError") EXCEPT !.hasDuplicate = dup], <<>>)
             ELSE Called(Graph(IF up /\ ~setupOk THEN "DeviceError" ELSE "ok",
                               kind, ps, addChild(kids, device), exists, pvCount, dup),
                         IF up THEN <<Ev("setup", d)>> ELSE <<>>)

\* LVMVolumeGroupDevice._addDevice(device).  pvOk: the device holds a PV
\* format; hasUuid: self.uuid is set; uuidDiffers: device.format.vgUuid is
\* not self.uuid; setupOk: self.setup() does not raise.
LVMVolumeGroupDevice_addDevice(d, device, pvOk, hasUuid, uuidDiffers, setupOk) ==
    IF ~Truthy(exists[d]) THEN Called(GraphRaise("DeviceError"), <<>>)
    ELSE IF ~pvOk THEN Called(GraphRaise("ValueError"), <<>>)
    ELSE LET dup == [hasDuplicate EXCEPT ![d] = @ \/ (hasUuid /\ uuidDiffers)]
             ps == [parents EXCEPT ![d] = Append(@, device)]
             g == Graph("ok", kind, ps, addChild(kids, device), exists, pvCount, dup)
             up == IF g.hasDuplicate[d] THEN FALSE
                   ELSE Len(g.parents[d]) = g.pvCount[d] \/ ~Truthy(g.exists[d])
         IN  IF In(device, parents[d])
             THEN Called([GraphRaise("ValueError") EXCEPT !.hasDuplicate = dup], <<>>)
             ELSE Called([g EXCEPT !.res = IF up /\ ~setupOk THEN "DeviceError" ELSE "ok"],
                         IF up THEN <<Ev("setup", d)>> ELSE <<>>)

\* _removeDevice that takes the duplicate mark off with the device
removeDevice_clearing(d, device) ==
    IF ~In(device, parents[d]) THEN GraphRaise("ValueError")
    ELSE Graph("ok", kind, [parents EXCEPT ![d] = ListRemove(@, device)],
               removeChild(kids, device), exists, pvCount,
               [hasDuplicate EXCEPT ![d] = FALSE])

\* LVMVolumeGroupDevice._removeDevice / MDRaidArrayDevice._removeDevice
removeDevice(d, device) ==
    IF ~In(device, parents[d]) THEN GraphRaise("ValueError")
    ELSE Graph("ok", kind, [parents EXCEPT ![d] = ListRemove(@, device)],
               removeChild(kids, device), exists, pvCount, hasDuplicate)

\* LVMVolumeGroupDevice._addPV
LVMVolumeGroupDevice_addPV(d, pv) ==
    IF In(pv, parents[d]) THEN GraphRaise("ValueError")
    ELSE IF Truthy(exists[d]) THEN GraphRaise("DeviceError")
    ELSE Graph("ok", kind, [parents EXCEPT ![d] = Append(@, pv)],
               addChild(kids, pv), exists,
               [pvCount EXCEPT ![d] = Len(parents[d]) + 1], hasDuplicate)

\* LVMVolumeGroupDevice._removePV
LVMVolumeGroupDevice_removePV(d, pv) ==
    IF ~In(pv, parents[d]) THEN GraphRaise("ValueError")
    ELSE IF Truthy(exists[d]) THEN GraphRaise("DeviceError")
    ELSE Graph("ok", kind, [parents EXCEPT ![d] = ListRemove(@, pv)],
               removeChild(kids, pv), exists,
               [pvCount EXCEPT ![d] = Len(parents[d]) - 1], hasDuplicate)

\* MDRaidArrayDevice._addDevice(device).  fmtOk: the device holds an mdmember
\* format of the array's uuid; setupOk: device.setup() does not raise.
MDRaidArrayDevice_addDevice(d, device, fmtOk, setupOk) ==
    IF ~Truthy(exists[d]) THEN GraphRaise("DeviceError")
    ELSE IF ~fmtOk THEN GraphRaise("ValueError")
    ELSE IF In(device, parents[d]) THEN GraphRaise("ValueError")
    ELSE Graph(IF setupOk THEN "ok" ELSE "DeviceError",
               kind, [parents EXCEPT ![d] = Append(@, device)],
               addChild(kids, device), exists, pvCount, hasDuplicate)

InitGraph ==
    /\ kind = <<>>
    /\ parents = <<>>
    /\ kids = <<>>
    /\ exists = <<>>
    /\ sysfsPath = <<>>
    /\ lvs = <<>>
    /\ pvCount = <<>>
    /\ hasDuplicate = <<>>
    /\ calls = <<>>
    /\ last = NoOp
    /\ FormatIdle
    /\ rawCalls = 0
    /\ SizeIdle

\* The state an operation of the graph leaves.  Child counts are kept
\* within MaxKids.
GraphStep(g, op, d) ==
    /\ \A x \in DOMAIN g.kids : g.kids[x] <= MaxKids
    /\ kind' = g.kind
    /\ parents' = g.parents
    /\ kids' = g.kids
    /\ exists' = g.exists
    /\ pvCount' = g.pvCount
    /\ hasDuplicate' = g.hasDuplicate
    /\ sysfsPath' = [x \in DOMAIN g.kind |-> TRUE]
    /\ lvs' = [x \in DOMAIN g.kind |-> <<>>]
    /\ calls' = <<>>
    /\ last' = [op |-> op, dev |-> d, res |-> g.res, pre |-> "n/a",
                cd |-> "n/a", kidsPre |-> <<>>]

\* A constructor call: DiskDevice(...), PartitionDevice(...),
\* LVMVolumeGroupDevice(...), MDRaidArrayDevice(...)
Construct(d) ==
    /\ d \notin DOMAIN kind
    /\ \E ps \in ParentLists(d), e \in {"False", "True"} :
          /\ \A i \in 1..Len(ps) : ps[i] \in DOMAIN kind
          /\ CASE GraphCatalogue[d] = "disk" ->
                    e = "True" /\ GraphStep(Device_init(d, "disk", ps, e), "__init__", d)
               [] GraphCatalogue[d] = "partition" ->
                    GraphStep(PartitionDevice_init(d, ps, e), "__init__", d)
               [] GraphCatalogue[d] = "vg" ->
                    \E pvOk \in BOOLEAN, pvc \in {Len(ps), Len(ps) + 1} :
                        GraphStep(LVMVolumeGroupDevice_init(d, ps, e, pvOk, pvc),
                                  "__init__", d)
               [] OTHER ->
                    \E minMembers \in {1, 2} :
                        GraphStep(MDRaidArrayDevice_init(d, ps, e, minMembers),
                                  "__init__", d)
    /\ UNCHANGED <<fvars, rawCalls, svars>>

\* partition.disk = disk
SetDisk(d) ==
    /\ kind[d] = "partition"
    /\ \E disk \in {x \in DOMAIN kind : kind[x] = "disk"} \cup {"None"} :
          GraphStep(PartitionDevice_setDisk(d, disk), "_setDisk", d)
    /\ UNCHANGED <<fvars, rawCalls, svars>>

\* vg._addDevice(device)
VgAddDevice(d) ==
    /\ kind[d] = "vg"
    /\ \E device \in DOMAIN kind \ {d}, pvOk \in BOOLEAN, hasUuid \in BOOLEAN,
          uuidDiffers \in BOOLEAN, setupOk \in BOOLEAN :
          LET g == LVMVolumeGroupDevice_addDevice(d, device, pvOk, hasUuid,
                                                  uuidDiffers, setupOk)
          IN  /\ kind[device] = "partition"
              /\ \A x \in DOMAIN g.kids : g.kids[x] <= MaxKids
              /\ kind' = g.kind
              /\ parents' = g.parents
              /\ kids' = g.kids
              /\ exists' = g.exists
              /\ pvCount' = g.pvCount
              /\ hasDuplicate' = g.hasDuplicate
              /\ calls' = g.calls
              /\ last' = [op |-> "_addDevice", dev |-> d, res |-> g.res,
                          pre |-> hasDuplicate[d], cd |-> "n/a", kidsPre |-> <<>>,
                          arg |-> [hasUuid |-> hasUuid,
                                   uuidDiffers |-> uuidDiffers]]
    /\ UNCHANGED <<sysfsPath, lvs, fvars, rawCalls, svars>>

\* vg._removeDevice(device) / array._removeDevice(device)
RemoveDevice(d) ==
    /\ kind[d] \in {"vg", "md"}
    /\ \E device \in DOMAIN kind \ {d} :
          /\ kind[device] = "partition"
          /\ GraphStep(removeDevice(d, device), "_removeDevice", d)
    /\ UNCHANGED <<fvars, rawCalls, svars>>

\* vg._addPV(pv)
AddPV(d) ==
    /\ kind[d] = "vg"
    /\ \E pv \in DOMAIN kind \ {d} :
          /\ kind[pv] = "partition"
          /\ GraphStep(LVMVolumeGroupDevice_addPV(d, pv), "_addPV", d)
    /\ UNCHANGED <<fvars, rawCalls, svars>>

\* vg._removePV(pv)
RemovePV(d) ==
    /\ kind[d] = "vg"
    /\ \E pv \in DOMAIN kind \ {d} :
          /\ kind[pv] = "partition"
          /\ GraphStep(LVMVolumeGroupDevice_removePV(d, pv), "_removePV", d)
    /\ UNCHANGED <<fvars, rawCalls, svars>>

\* array._addDevice(device)
MdAddDevice(d) ==
    /\ kind[d] = "md"
    /\ \E device \in DOMAIN kind \ {d}, fmtOk \in BOOLEAN, setupOk \in BOOLEAN :
          /\ kind[device] = "partition"
          /\ GraphStep(MDRaidArrayDevice_addDevice(d, device, fmtOk, setupOk),
                       "_addDevice", d)
    /\ UNCHANGED <<fvars, rawCalls, svars>>

\* device.addChild() called by the device tree
AddChild(d) ==
    /\ rawCalls < MaxRawCalls
    /\ rawCalls' = rawCalls + 1
    /\ GraphStep(Graph("ok", kind, parents, addChild(kids, d), exists, pvCount,
                       hasDuplicate), "addChild", d)
    /\ UNCHANGED <<fvars, svars>>

\* device.removeChild() called by the device tree
RemoveChild(d) ==
    /\ rawCalls < MaxRawCalls
    /\ rawCalls' = rawCalls + 1
    /\ GraphStep(Graph("ok", kind, parents, removeChild(kids, d), exists, pvCount,
                       hasDuplicate), "removeChild", d)
    /\ UNCHANGED <<fvars, svars>>

ConstructAny == \E d \in DOMAIN GraphCatalogue : Construct(d)

SetDiskAny == \E d \in DOMAIN kind : SetDisk(d)

VgAddDeviceAny == \E d \in DOMAIN kind : VgAddDevice(d)

RemoveDeviceAny == \E d \in DOMAIN kind : RemoveDevice(d)

AddPVAny == \E d \in DOMAIN kind : AddPV(d)

RemovePVAny == \E d \in DOMAIN kind : RemovePV(d)

MdAddDeviceAny == \E d \in DOMAIN kind : MdAddDevice(d)

AddChildAny == \E d \in DOMAIN kind : AddChild(d)

RemoveChildAny == \E d \in DOMAIN kind : RemoveChild(d)

NextGraph ==
    \/ ConstructAny
    \/ SetDiskAny
    \/ VgAddDeviceAny
    \/ RemoveDeviceAny
    \/ AddPVAny
    \/ RemovePVAny
    \/ MdAddDeviceAny
    \/ AddChildAny
    \/ RemoveChildAny

SpecGraph == InitGraph /\ [][NextGraph]_vars

\* C6: whatever constructors, partition disk assignments, member additions
\* and removals, and addChild() / removeChild() calls have run, no device's
\* child count is negative.
C6_KidsNeverNegative == \A d \in DOMAIN kids : kids[d] >= 0

\* C6, the failing case: removeChild() on a device without children left
\* its child count below zero.
C6_NegativeKids ==
    /\ last.op = "removeChild" /\ kids[last.dev] = -1

\* ------------------------------------------------------------------------
\* Size specification: sizes of logical volumes, volume groups and
\* partitions.  Sizes are whole MB.
\* ------------------------------------------------------------------------

\* "self.peSize = 4.0   # MB" when the constructor is given none
DefaultPeSize == 4

\* The largest size (MB) a caller asks for.
MaxSize == 9

\* The class attribute _resizable
ClassResizable(d) == kind[d] \in {"partition", "lv", "thinlv"}

\* StorageDevice.resizable (the format is always present; the disk of a
\* partition is no DASD)
resizable(d) == ClassResizable(d) /\ Truthy(exists[d]) /\ attrs[d].fmtResizable

\* StorageDevice.partedDevice is set: the device exists and is active, and
\* parted found it.
hasParted(d) == Truthy(exists[d]) /\ attrs[d].hasParted

\* What reading the size of d does to its _size:
\* "if self.exists and self.partedDevice: self._size = self.currentSize"
Refreshed(d, sz) ==
    IF kind[d] # "partition" /\ hasParted(d) THEN attrs[d].partedSize ELSE sz[d]

\* _size after the size of the devices in ds has been read
Refresh(sz, ds) ==
    [d \in DOMAIN sz |-> IF d \in ds THEN Refreshed(d, sz) ELSE sz[d]]

\* StorageDevice.currentSize / PartitionDevice.currentSize
currentSize(d, sz) ==
    IF kind[d] = "partition"
    THEN (IF Truthy(exists[d]) THEN attrs[d].currentSize ELSE 0)
    ELSE IF hasParted(d) THEN attrs[d].partedSize
    ELSE IF Truthy(exists[d]) THEN sz[d]
    ELSE 0

\* StorageDevice._getSize / PartitionDevice._getSize (the partition has a
\* partedPartition, whose geometry is attrs.geom)
getSize(d, sz, tg) ==
    IF kind[d] = "partition" THEN attrs[d].geom
    ELSE LET base == Refreshed(d, sz)
         IN  IF Truthy(exists[d]) /\ resizable(d) /\ tg[d] # base
             THEN tg[d] ELSE base

\* StorageDevice.minSize
minSize(d, sz, tg) ==
    IF attrs[d].fmtMin # 0 THEN attrs[d].fmtMin ELSE getSize(d, sz, tg)

\* StorageDevice.maxSize / PartitionDevice.maxSize
maxSize(d, sz) ==
    LET ceiling == IF kind[d] = "partition" THEN attrs[d].maxAvail
                   ELSE currentSize(d, sz)
    IN  IF attrs[d].fmtMax > ceiling THEN ceiling ELSE attrs[d].fmtMax

\* LVMVolumeGroupDevice.align: a multiple of the extent size, rounded down,
\* or up when roundup is set
align(vg, n, roundup) ==
    LET pe == attrs[vg].peSize
    IN  IF roundup THEN ((n + pe - 1) \div pe) * pe ELSE (n \div pe) * pe

\* sum(...) of a list of numbers
RECURSIVE Sum(_)
Sum(l) == IF l = <<>> THEN 0 ELSE Head(l) + Sum(Tail(l))

\* LVMVolumeGroupDevice.size
vgSize(vg, sz, tg) ==
    LET pvSpace(pv) ==
            LET a == align(vg, getSize(pv, sz, tg) - attrs[pv].peStart, FALSE)
            IN  IF a > 0 THEN a ELSE 0
    IN  Sum([i \in 1..Len(parents[vg]) |-> pvSpace(parents[vg][i])])

\* LVMVolumeGroupDevice.snapshotSpace
snapshotSpace(vg) ==
    LET ofLv(lv) == align(vg, attrs[lv].snapshotSpace, TRUE)
        ofVorigin(n) == align(vg, n, TRUE)
        vs == attrs[vg].voriginSnapshots
    IN  Sum([i \in 1..Len(lvs[vg]) |-> ofLv(lvs[vg][i])])
            + Sum([i \in 1..Len(vs) |-> ofVorigin(vs[i])])

\* LVMVolumeGroupDevice.reservedSpace: reserved_percent * 0.01 * size, or
\* reserved_space, rounded up to whole extents
reservedSpace(vg, sz, tg) ==
    LET pe == attrs[vg].peSize
    IN  IF attrs[vg].reservedPercent > 0
        THEN ((attrs[vg].reservedPercent * vgSize(vg, sz, tg) + 100 * pe - 1)
                \div (100 * pe)) * pe
        ELSE IF attrs[vg].reservedSpace > 0
        THEN align(vg, attrs[vg].reservedSpace, TRUE)
        ELSE 0

\* lvm.get_pool_padding(space, pesize): a fifth of the space, in whole
\* extents
get_pool_padding(space, pe) == ((space + 5 * pe - 1) \div (5 * pe)) * pe

\* LVMLogicalVolumeDevice.vgSpaceUsed, LVMThinPoolDevice.vgSpaceUsed,
\* LVMThinLogicalVolumeDevice.vgSpaceUsed
vgSpaceUsed(lv, sz, tg) ==
    LET vg == vgOf(lv)
        space == align(vg, getSize(lv, sz, tg), TRUE) * attrs[lv].copies
                 + attrs[lv].logSize + attrs[lv].metaDataSize
    IN  CASE kind[lv] = "thinlv" -> 0
          [] kind[lv] = "thinpool" -> space + get_pool_padding(space, attrs[vg].peSize)
          [] OTHER -> space

\* "sum(lv.vgSpaceUsed for lv in self.lvs)"
lvSpaceUsed(vg, sz, tg) ==
    LET used(lv) == vgSpaceUsed(lv, sz, tg)
    IN  Sum([i \in 1..Len(lvs[vg]) |-> used(lvs[vg][i])])

\* LVMVolumeGroupDevice.freeSpace with the reserved space left out
freeSpace_unreserved(vg, sz, tg) ==
    vgSize(vg, sz, tg) - (lvSpaceUsed(vg, sz, tg) + snapshotSpace(vg))

\* LVMVolumeGroupDevice.freeSpace
freeSpace(vg, sz, tg) ==
    vgSize(vg, sz, tg)
        - (lvSpaceUsed(vg, sz, tg) + snapshotSpace(vg) + reservedSpace(vg, sz, tg))

\* The devices whose size freeSpace reads: the PVs and the LVs that are no
\* thin volumes.
FreeSpaceReads(vg) ==
    {parents[vg][i] : i \in 1..Len(parents[vg])}
        \cup {lv \in {lvs[vg][i] : i \in 1..Len(lvs[vg])} : kind[lv] # "thinlv"}

\* The result of a size operation: how it ended, the calls it made, and the
\* _size, _targetSize and attributes it leaves.
Sized(o, sz, tg, at) ==
    [res |-> o.res, calls |-> o.calls, size |-> sz, targetSize |-> tg, attrs |-> at]

\* StorageDevice._setSize: the error message calls self.maxSize(), a number.
StorageDevice_setSize(d, n) ==
    IF n > maxSize(d, size)
    THEN Sized(Raise("TypeError", <<>>), size, targetSize, attrs)
    ELSE Sized(Ok(<<>>), [size EXCEPT ![d] = n], targetSize, attrs)

\* PartitionDevice._setSize: the length of the in-memory geometry is set.
PartitionDevice_setSize(d, n) ==
    IF ~Truthy(exists[d])
    THEN Sized(Raise("DeviceError", <<>>), size, targetSize, attrs)
    ELSE IF n > getSize(parents[d][1], size, targetSize) \/ n > attrs[d].maxAvail
    THEN Sized(Raise("ValueError", <<>>), Refresh(size, {parents[d][1]}),
               targetSize, attrs)
    ELSE Sized(Ok(<<>>), Refresh(size, {parents[d][1]}), targetSize,
               [attrs EXCEPT ![d].geom = n])

\* LVMLogicalVolumeDevice._setSize without its check of the free space
LVMLogicalVolumeDevice_setSize_unchecked(d, n) ==
    LET a == align(vgOf(d), n, FALSE)
    IN  Sized(Ok(<<>>), [size EXCEPT ![d] = a], [targetSize EXCEPT ![d] = a], attrs)

\* LVMLogicalVolumeDevice._setSize (a thin pool has no other)
LVMLogicalVolumeDevice_setSize(d, n) ==
    LET vg == vgOf(d)
        a == align(vg, n, FALSE)
        sz == Refresh(size, FreeSpaceReads(vg))
    IN  IF a <= freeSpace(vg, size, targetSize) + sz[d]
        THEN Sized(Ok(<<>>), [sz EXCEPT ![d] = a], [targetSize EXCEPT ![d] = a], attrs)
        ELSE Sized(Raise("ValueError", <<>>), sz, targetSize, attrs)

\* LVMThinLogicalVolumeDevice._setSize
LVMThinLogicalVolumeDevice_setSize(d, n) ==
    LET a == align(vgOf(d), align(vgOf(d), n, FALSE), FALSE)
    IN  Sized(Ok(<<>>), [size EXCEPT ![d] = a], [targetSize EXCEPT ![d] = a], attrs)

\* "device.size = n"
setSize(d, n) ==
    CASE kind[d] = "partition" -> PartitionDevice_setSize(d, n)
      [] kind[d] \in {"lv", "thinpool"} -> LVMLogicalVolumeDevice_setSize(d, n)
      [] kind[d] = "thinlv" -> LVMThinLogicalVolumeDevice_setSize(d, n)
      [] OTHER -> StorageDevice_setSize(d, n)

\* parted's setPartitionGeometry with an exact constraint: taken when the
\* new geometry fits the space available to the partition.
setPartitionGeometry(d, n) ==
    IF n <= attrs[d].maxAvail
    THEN Ok(<<Ev("parted.setPartitionGeometry", d)>>)
    ELSE Raise("PartitionException", <<>>)

\* StorageDevice._setTargetSize
StorageDevice_setTargetSize(d, n) ==
    Sized(Ok(<<>>), size, [targetSize EXCEPT ![d] = n], attrs)

\* PartitionDevice._setTargetSize: the geometry is changed in memory.
PartitionDevice_setTargetSize(d, n) ==
    IF n = currentSize(d, size) THEN Sized(Ok(<<>>), size, targetSize, attrs)
    ELSE LET o == setPartitionGeometry(d, n)
         IN  Sized(o, size, [targetSize EXCEPT ![d] = n],
                   IF o.res = "ok" THEN [attrs EXCEPT ![d].geom = n] ELSE attrs)

\* "device.targetSize = n"
setTargetSize(d, n) ==
    IF kind[d] = "partition" THEN PartitionDevice_setTargetSize(d, n)
    ELSE StorageDevice_setTargetSize(d, n)

\* PartitionDevice.resize
PartitionDevice_resize(d, env) ==
    IF targetSize[d] = currentSize(d, size) THEN Sized(Ok(<<>>), size, targetSize, attrs)
    ELSE LET g == setPartitionGeometry(d, targetSize[d])
             o == Then(g, Tool("disklabel.commit", d, "DiskLabelCommitError", env))
             at == IF g.res = "ok" THEN [attrs EXCEPT ![d].geom = targetSize[d]]
                   ELSE attrs
         IN  Sized(o, size, targetSize,
                   IF o.res = "ok" THEN [at EXCEPT ![d].currentSize = at[d].geom]
                   ELSE at)

\* LVMLogicalVolumeDevice.resize
LVMLogicalVolumeDevice_resize(d, env) ==
    IF ~Truthy(exists[d]) THEN Sized(Raise("DeviceError", <<>>), size, targetSize, attrs)
    ELSE LET o == Then(setupParents(vgOf(d), TRUE, env, exists),
                  Then(Ok(formatTeardown(d, env) \o <<Ev("udev_settle", d)>>),
                       Tool("lvm.lvresize", d, "LVMError", env)))
         IN  Sized(o, IF o.calls # <<>> /\ o.calls[Len(o.calls)].e = "lvm.lvresize"
                      THEN Refresh(size, {d}) ELSE size,
                   targetSize, attrs)

\* StorageDevice.resize
StorageDevice_resize(d, env) ==
    Sized(Raise("NotImplementedError", <<>>), size, targetSize, attrs)

\* "device.resize()"
resize(d, env) ==
    CASE kind[d] = "partition" -> PartitionDevice_resize(d, env)
      [] kind[d] \in LVKinds -> LVMLogicalVolumeDevice_resize(d, env)
      [] OTHER -> StorageDevice_resize(d, env)

\* ------------------------------------------------------------------------
\* Sizes: the specification of the size operations
\* ------------------------------------------------------------------------

\* The attributes a device is constructed with when nothing is passed:
\* no format limits, one copy, no log, no metadata, nothing reserved.
DefaultAttrs ==
    [fmtResizable |-> TRUE, fmtMin |-> 0, fmtMax |-> 0,
     hasParted |-> FALSE, partedSize |-> 0,
     currentSize |-> 0, geom |-> 0, maxAvail |-> 0,
     peSize |-> DefaultPeSize, peStart |-> 0,
     snapshotSpace |-> 0, voriginSnapshots |-> <<>>,
     reservedPercent |-> 0, reservedSpace |-> 0,
     copies |-> 1, logSize |-> 0, metaDataSize |-> 0, reqGrow |-> FALSE]

\* The formats of the device under test: one without limits, one with a
\* minimum and a maximum size.
SizeFormats == {[fmtMin |-> 0, fmtMax |-> 0], [fmtMin |-> 4, fmtMax |-> 8]}

\* How the volume group is laid out: a plain LV and nothing reserved; a
\* mirrored LV with a log and a snapshot, a vorigin snapshot, pool metadata
\* and an absolute reservation; a plain LV and a reserved percentage.
SizeProfiles ==
    {[copies |-> 1, logSize |-> 0, snapshotSpace |-> 0, voriginSnapshots |-> <<>>,
      metaDataSize |-> 0, reservedPercent |-> 0, reservedSpace |-> 0],
     [copies |-> 2, logSize |-> 1, snapshotSpace |-> 2, voriginSnapshots |-> <<3>>,
      metaDataSize |-> 1, reservedPercent |-> 0, reservedSpace |-> 3],
     [copies |-> 1, logSize |-> 0, snapshotSpace |-> 0, voriginSnapshots |-> <<>>,
      metaDataSize |-> 0, reservedPercent |-> 10, reservedSpace |-> 0]}

SizeLvm ==
    [kind |-> [pv0 |-> "storage", vg0 |-> "vg", lv0 |-> "lv",
               pool0 |-> "thinpool", thin0 |-> "thinlv"],
     parents |-> [pv0 |-> <<>>, vg0 |-> <<"pv0">>, lv0 |-> <<"vg0">>,
                  pool0 |-> <<"vg0">>, thin0 |-> <<"pool0">>],
     lvs |-> [pv0 |-> <<>>, vg0 |-> <<"lv0", "pool0", "thin0">>, lv0 |-> <<>>,
              pool0 |-> <<"thin0">>, thin0 |-> <<>>]]

SizePart ==
    [kind |-> [disk0 |-> "disk", part0 |-> "partition"],
     parents |-> [disk0 |-> <<>>, part0 |-> <<"disk0">>],
     lvs |-> [disk0 |-> <<>>, part0 |-> <<>>]]

SizePlain ==
    [kind |-> [sd0 |-> "storage"], parents |-> [sd0 |-> <<>>], lvs |-> [sd0 |-> <<>>]]

\* The graph variables of a constructed graph g
SizeGraph(g, ex) ==
    /\ kind = g.kind
    /\ parents = g.parents
    /\ kids = [d \in DOMAIN g.kind |-> Occurrences(g.parents, d)]
    /\ exists = ex
    /\ sysfsPath = [d \in DOMAIN g.kind |-> TRUE]
    /\ lvs = g.lvs
    /\ pvCount = [d \in DOMAIN g.kind |-> Len(g.parents[d])]
    /\ hasDuplicate = [d \in DOMAIN g.kind |-> FALSE]

\* A volume group on one existing PV of 41 MB whose data starts at 1 MB,
\* with a plain or mirrored LV, a thin pool and a thin LV in it: planned
\* (the LV is asked to be 3 MB) or discovered (the LV is 4 MB, and parted
\* knows it).  The thin LV carries a format that cannot be resized.
InitSizeLvm ==
    \E e \in {"False", "True"}, p \in SizeProfiles, f \in SizeFormats :
        /\ SizeGraph(SizeLvm, [pv0 |-> "True", vg0 |-> e, lv0 |-> e,
                               pool0 |-> e, thin0 |-> e])
        /\ size = [pv0 |-> 41, vg0 |-> 0, lv0 |-> IF e = "True" THEN 4 ELSE 3,
                   pool0 |-> 4, thin0 |-> 8]
        /\ targetSize = size
        /\ attrs = [pv0 |-> [DefaultAttrs EXCEPT !.peStart = 1],
                    vg0 |-> [DefaultAttrs EXCEPT
                                !.voriginSnapshots = p.voriginSnapshots,
                                !.reservedPercent = p.reservedPercent,
                                !.reservedSpace = p.reservedSpace],
                    lv0 |-> [DefaultAttrs EXCEPT
                                !.fmtMin = f.fmtMin, !.fmtMax = f.fmtMax,
                                !.hasParted = (e = "True"), !.partedSize = 4,
                                !.copies = p.copies, !.logSize = p.logSize,
                                !.snapshotSpace = p.snapshotSpace],
                    pool0 |-> [DefaultAttrs EXCEPT !.metaDataSize = p.metaDataSize],
                    thin0 |-> [DefaultAttrs EXCEPT !.fmtResizable = FALSE]]

\* A disk of 30 MB with one existing partition of 4 MB that has room for
\* 6 MB and carries a format with size limits.
InitSizePart ==
    \E f \in {g \in SizeFormats : g.fmtMax > 0} :
        /\ SizeGraph(SizePart, [disk0 |-> "True", part0 |-> "True"])
        /\ size = [disk0 |-> 30, part0 |-> 4]
        /\ targetSize = size
        /\ attrs = [disk0 |-> [DefaultAttrs EXCEPT !.hasParted = TRUE,
                                                   !.partedSize = 30],
                    part0 |-> [DefaultAttrs EXCEPT
                                  !.fmtMin = f.fmtMin, !.fmtMax = f.fmtMax,
                                  !.currentSize = 4, !.geom = 4, !.maxAvail = 6]]

\* A plain storage device of 6 MB, planned or existing.
InitSizePlain ==
    \E e \in {"False", "True"}, f \in SizeFormats :
        /\ SizeGraph(SizePlain, [sd0 |-> e])
        /\ size = [sd0 |-> 6]
        /\ targetSize = size
        /\ attrs = [sd0 |-> [DefaultAttrs EXCEPT
                                !.fmtMin = f.fmtMin, !.fmtMax = f.fmtMax]]

InitSize ==
    /\ InitSizeLvm \/ InitSizePart \/ InitSizePlain
    /\ calls = <<>>
    /\ last = NoOp
    /\ FormatIdle
    /\ rawCalls = 0

\* d is a physical volume of a volume group
IsPV(d) == \E vg \in DOMAIN kind : kind[vg] = "vg" /\ In(d, parents[vg])

\* targetSize lies outside [minSize, maxSize]
Outside(d) ==
    \/ targetSize[d] < minSize(d, size, targetSize)
    \/ targetSize[d] > maxSize(d, size)

\* One size operation on d with the argument arg: what it leaves, and the
\* record of it.
SizeStep(o, op, d, pre, arg) ==
    /\ size' = o.size
    /\ targetSize' = o.targetSize
    /\ attrs' = o.attrs
    /\ calls' = o.calls
    /\ last' = [op |-> op, dev |-> d, res |-> o.res, pre |-> pre,
                cd |-> "n/a", kidsPre |-> <<>>, arg |-> arg]
    /\ UNCHANGED <<gvars, fvars, rawCalls>>

\* "d.size = n": a volume group has no setter, and the PV under a volume
\* group is left alone.
SetSize(d, n) ==
    /\ kind[d] # "vg" /\ ~IsPV(d)
    /\ SizeStep(setSize(d, n), "_setSize", d, "n/a", n)

\* "d.targetSize = n", on a device that can be resized
SetTargetSize(d, n) ==
    /\ resizable(d)
    /\ SizeStep(setTargetSize(d, n), "_setTargetSize", d, "n/a", n)

\* What the environment answers during a resize: the devices below are
\* active already and the volume carries no format, so that the tool is all
\* that can fail.
ResizeEnvs == {env \in Envs : env.status /\ env.nodeOk /\ ~env.fmtExists}

\* "d.resize()"
Resize(d) ==
    \E env \in ResizeEnvs :
        SizeStep(resize(d, env), "resize", d,
                 IF Outside(d) THEN "outside" ELSE "inside", targetSize[d])

SetSizeAny == \E d \in DOMAIN kind, n \in 0..MaxSize : SetSize(d, n)

SetTargetSizeAny == \E d \in DOMAIN kind, n \in 0..MaxSize : SetTargetSize(d, n)

ResizeAny == \E d \in DOMAIN kind : Resize(d)

NextSize == SetSizeAny \/ SetTargetSizeAny \/ ResizeAny

SpecSize == InitSize /\ [][NextSize]_vars

\* The calls of the last operation that change something underneath: the
\* in-memory geometry, the disk label, the logical volume.
Mutations ==
    {i \in 1..Len(calls) :
        calls[i].e \in {"parted.setPartitionGeometry", "disklabel.commit",
                        "lvm.lvresize"}}

\* C7: after a size-mutating operation (setting size or targetSize) that
\* returned normally, the size of the device is at most its maxSize.
C7_SizeWithinMax ==
    (last.op \in {"_setSize", "_setTargetSize"} /\ last.res = "ok")
        => getSize(last.dev, size, targetSize) <= maxSize(last.dev, size)

\* C7, the failing case: an existing logical volume whose format has a
\* maximum size was given a targetSize beyond it, and that is now its size.
C7_TargetBeyondMax ==
    /\ last.op = "_setTargetSize" /\ last.res = "ok"
    /\ kind[last.dev] = "lv"
    /\ attrs[last.dev].fmtMax > 0
    /\ targetSize[last.dev] > attrs[last.dev].fmtMax
    /\ getSize(last.dev, size, targetSize) = targetSize[last.dev]

\* C8: resize() of a resizable device whose targetSize lies outside
\* [minSize, maxSize] fails, and has changed neither the in-memory geometry
\* nor the label nor the logical volume.
C8_ResizeValidates ==
    (last.op = "resize" /\ resizable(last.dev) /\ last.pre = "outside")
        => (last.res # "ok" /\ Mutations = {})

\* C8, the failing case: a logical volume whose targetSize was below the
\* minimum size of its format has been resized with lvresize.
C8_ResizedOutside ==
    /\ last.op = "resize" /\ last.res = "ok" /\ last.pre = "outside"
    /\ kind[last.dev] = "lv"
    /\ targetSize[last.dev] < attrs[last.dev].fmtMin
    /\ Mutations # {}

C10_Accounting ==
    \A vg \in DOMAIN kind :
        (kind[vg] = "vg" /\ lvs[vg] # <<>>) =>
            freeSpace(vg, size, targetSize) + lvSpaceUsed(vg, size, targetSize)
                + snapshotSpace(vg) + reservedSpace(vg, size, targetSize)
              = vgSize(vg, size, targetSize)

\* C10: a group with a mirrored volume, a thin pool, a thin volume,
\* snapshots and a reservation, overcommitted after a size was set.
C10_Overcommitted ==
    \E vg \in DOMAIN kind :
        /\ kind[vg] = "vg" /\ lvs[vg] # <<>>
        /\ last.op = "_setSize" /\ last.res = "ok"
        /\ reservedSpace(vg, size, targetSize) > 0
        /\ snapshotSpace(vg) > 0
        /\ freeSpace(vg, size, targetSize) < 0

\* ------------------------------------------------------------------------
\* Logical volumes: construction, the LV lists, create() with its sizes
\* ------------------------------------------------------------------------

\* StorageDevice.growable: the device or one of the devices under it was
\* asked to grow.
RECURSIVE growable(_)
growable(d) ==
    attrs[d].reqGrow \/ \E i \in 1..Len(parents[d]) : growable(parents[d][i])

\* What _addLogVol / _removeLogVol leave: how the call ended and the LV lists.
Listed(res, ls) == [res |-> res, lvs |-> ls]

\* LVMVolumeGroupDevice._addLogVol without the test for a volume that is
\* already in the list
LVMVolumeGroupDevice_addLogVol_unchecked(vg, lv, k, e, sz, ls) ==
    IF ~Truthy(e) /\ ~growable(vg) /\ k # "thinlv"
          /\ sz > freeSpace(vg, size, targetSize)
    THEN Listed("DeviceError", ls)
    ELSE Listed("ok", [ls EXCEPT ![vg] = Append(@, lv)])

\* LVMVolumeGroupDevice._addLogVol(lv), lv of class k with the exists flag e
\* and the size sz
LVMVolumeGroupDevice_addLogVol(vg, lv, k, e, sz, ls) ==
    IF In(lv, ls[vg]) THEN Listed("ValueError", ls)
    ELSE IF ~Truthy(e) /\ ~growable(vg) /\ k # "thinlv"
            /\ sz > freeSpace(vg, size, targetSize)
    THEN Listed("DeviceError", ls)
    ELSE Listed("ok", [ls EXCEPT ![vg] = Append(@, lv)])

\* LVMVolumeGroupDevice._removeLogVol(lv)
LVMVolumeGroupDevice_removeLogVol(vg, lv, ls) ==
    IF ~In(lv, ls[vg]) THEN Listed("ValueError", ls)
    ELSE Listed("ok", [ls EXCEPT ![vg] = ListRemove(@, lv)])

\* LVMThinPoolDevice._addLogVol without the call of the group's _addLogVol
LVMThinPoolDevice_addLogVol_poolOnly(pool, lv, k, e, sz, ls) ==
    IF In(lv, ls[pool]) THEN Listed("ValueError", ls)
    ELSE Listed("ok", [ls EXCEPT ![pool] = Append(@, lv)])

\* LVMThinPoolDevice._addLogVol(lv)
LVMThinPoolDevice_addLogVol(pool, lv, k, e, sz, ls) ==
    IF In(lv, ls[pool]) THEN Listed("ValueError", ls)
    ELSE LET r == LVMVolumeGroupDevice_addLogVol(parents[pool][1], lv, k, e, sz, ls)
         IN  IF r.res # "ok" THEN r
             ELSE Listed("ok", [r.lvs EXCEPT ![pool] = Append(@, lv)])

\* LVMThinPoolDevice._removeLogVol(lv)
LVMThinPoolDevice_removeLogVol(pool, lv, ls) ==
    IF ~In(lv, ls[pool]) THEN Listed("ValueError", ls)
    ELSE LVMVolumeGroupDevice_removeLogVol(parents[pool][1], lv,
                                           [ls EXCEPT ![pool] = ListRemove(@, lv)])

\* "container._addLogVol(lv)"
addLogVol(c, lv, k, e, sz, ls) ==
    IF kind[c] = "thinpool" THEN LVMThinPoolDevice_addLogVol(c, lv, k, e, sz, ls)
    ELSE LVMVolumeGroupDevice_addLogVol(c, lv, k, e, sz, ls)

\* "container._removeLogVol(lv)"
removeLogVol(c, lv, ls) ==
    IF kind[c] = "thinpool" THEN LVMThinPoolDevice_removeLogVol(c, lv, ls)
    ELSE LVMVolumeGroupDevice_removeLogVol(c, lv, ls)

\* The devices a constructor leaves, and how it ended.
Built(res, k, ps, ks, ex, ls, sz, tg, at) ==
    [res |-> res, kind |-> k, parents |-> ps, kids |-> ks, exists |-> ex,
     lvs |-> ls, size |-> sz, targetSize |-> tg, attrs |-> at]

\* A call that left everything but the LV lists as it was.
Relisted(r) ==
    Built(r.res, kind, parents, kids, exists, r.lvs, size, targetSize, attrs)

\* The class of container each class of logical volume asks for
\* (_containerClass)
ContainerClass(k) == IF k = "thinlv" THEN "thinpool" ELSE "vg"

\* LVMLogicalVolumeDevice.__init__ / LVMThinPoolDevice.__init__ /
\* LVMThinLogicalVolumeDevice.__init__ of a volume d of class k in the
\* container c.  The container has counted the new child when _addLogVol
\* refuses it.
LVMLogicalVolumeDevice_init(d, k, c, sz, e) ==
    IF kind[c] # ContainerClass(k)
    THEN Built("ValueError", kind, parents, kids, exists, lvs, size, targetSize, attrs)
    ELSE LET r == addLogVol(c, d, k, e, sz, lvs @@ (d :> <<>>))
         IN  IF r.res # "ok"
             THEN Built(r.res, kind, parents, addChild(kids, c), exists, lvs,
                        size, targetSize, attrs)
             ELSE Built("ok", kind @@ (d :> k), parents @@ (d :> <<c>>),
                        addChild(kids @@ (d :> 0), c), exists @@ (d :> e), r.lvs,
                        size @@ (d :> sz), targetSize @@ (d :> sz),
                        attrs @@ (d :> DefaultAttrs))

\* LVMLogicalVolumeDevice._preCreate: canUse is the free space lvm.vginfo
\* reports, <<>> when the query or its answer is unusable.  A thin volume
\* passes.
LVMLogicalVolumeDevice_preCreate(d, canUse) ==
    IF kind[d] = "thinlv" \/ canUse = <<>>
    THEN Sized(Ok(<<>>), size, targetSize, attrs)
    ELSE IF getSize(d, size, targetSize) > canUse[1]
    THEN setSize(d, canUse[1])
    ELSE Sized(Ok(<<>>), Refresh(size, {d}), targetSize, attrs)

\* LVMLogicalVolumeDevice.create with _create moved before _preCreate
LVMLogicalVolumeDevice_createSized_late(d, env, canUse) ==
    IF Truthy(exists[d]) THEN Sized(Raise("DeviceError", <<>>), size, targetSize, attrs)
    ELSE LET o == Then(createParents(d, exists),
                  Then(setupParents(d, FALSE, env, exists),
                  Then(LV_create(d, env), LV_preCreate(d))))
             p == LVMLogicalVolumeDevice_preCreate(d, canUse)
         IN  IF o.res # "ok" THEN Sized(o, size, targetSize, attrs)
             ELSE IF p.res # "ok"
             THEN Sized(Raise(p.res, o.calls), p.size, p.targetSize, p.attrs)
             ELSE Sized(Then(o, markAndSetup(d, env, exists)),
                        p.size, p.targetSize, p.attrs)

\* LVMLogicalVolumeDevice.create with the sizes: _preCreate may shrink the
\* volume, through the size setter, before _create runs.
LVMLogicalVolumeDevice_createSized(d, env, canUse) ==
    IF Truthy(exists[d]) THEN Sized(Raise("DeviceError", <<>>), size, targetSize, attrs)
    ELSE LET o == Then(createParents(d, exists),
                  Then(setupParents(d, FALSE, env, exists), LV_preCreate(d)))
             p == LVMLogicalVolumeDevice_preCreate(d, canUse)
         IN  IF o.res # "ok" THEN Sized(o, size, targetSize, attrs)
             ELSE IF p.res # "ok"
             THEN Sized(Raise(p.res, o.calls), p.size, p.targetSize, p.attrs)
             ELSE Sized(Then(o, Then(LV_create(d, env), markAndSetup(d, env, exists))),
                        p.size, p.targetSize, p.attrs)

\* The logical volumes that can be constructed, and their classes.
VolCatalogue == [lv0 |-> "lv", pool0 |-> "thinpool", thin0 |-> "thinlv"]

\* The sizes (MB) a volume is constructed with or set to, and the free
\* space lvm.vginfo can report during create().
VolSizes == {8, 12}

VolFree == {<<>>, <<4>>}

\* An existing volume group of 16 MB on one PV, growable or not, without
\* logical volumes yet.
InitVolumes ==
    \E g \in BOOLEAN :
        /\ kind = [pv0 |-> "storage", vg0 |-> "vg"]
        /\ parents = [pv0 |-> <<>>, vg0 |-> <<"pv0">>]
        /\ kids = [pv0 |-> 1, vg0 |-> 0]
        /\ exists = [pv0 |-> "True", vg0 |-> "True"]
        /\ sysfsPath = [pv0 |-> TRUE, vg0 |-> TRUE]
        /\ lvs = [pv0 |-> <<>>, vg0 |-> <<>>]
        /\ pvCount = [pv0 |-> 0, vg0 |-> 1]
        /\ hasDuplicate = [pv0 |-> FALSE, vg0 |-> FALSE]
        /\ size = [pv0 |-> 17, vg0 |-> 0]
        /\ targetSize = size
        /\ attrs = [pv0 |-> [DefaultAttrs EXCEPT !.peStart = 1, !.reqGrow = g],
                    vg0 |-> DefaultAttrs]
        /\ calls = <<>>
        /\ last = NoOp
        /\ FormatIdle
        /\ rawCalls = 0

\* The state a constructor or a list operation leaves.
VolStep(b, op, d, cs) ==
    /\ kind' = b.kind
    /\ parents' = b.parents
    /\ kids' = b.kids
    /\ exists' = b.exists
    /\ lvs' = b.lvs
    /\ size' = b.size
    /\ targetSize' = b.targetSize
    /\ attrs' = b.attrs
    /\ sysfsPath' = [x \in DOMAIN b.kind |-> TRUE]
    /\ pvCount' = [x \in DOMAIN b.kind |-> IF x \in DOMAIN pvCount THEN pvCount[x] ELSE 0]
    /\ hasDuplicate' = [x \in DOMAIN b.kind |-> FALSE]
    /\ calls' = cs
    /\ last' = [op |-> op, dev |-> d, res |-> b.res, pre |-> "n/a",
                cd |-> "n/a", kidsPre |-> <<>>, arg |-> 0]
    /\ UNCHANGED <<fvars, rawCalls>>

\* A constructor call for the logical volume d in the container c
ConstructLv(d, c) ==
    /\ d \notin DOMAIN kind
    /\ c \in DOMAIN kind
    /\ kids[c] < MaxKids
    /\ \E sz \in VolSizes, e \in {"False", "True"} :
          VolStep(LVMLogicalVolumeDevice_init(d, VolCatalogue[d], c, sz, e),
                  "__init__", d, <<>>)

\* "d.parents[0]._addLogVol(d)" on a constructed volume
AddLogVol(d) ==
    /\ d \in DOMAIN kind /\ kind[d] \in LVKinds
    /\ VolStep(Relisted(addLogVol(parents[d][1], d, kind[d], exists[d],
                                  getSize(d, size, targetSize), lvs)),
               "_addLogVol", d, <<>>)

\* "d.parents[0]._removeLogVol(d)"
RemoveLogVol(d) ==
    /\ d \in DOMAIN kind /\ kind[d] \in LVKinds
    /\ VolStep(Relisted(removeLogVol(parents[d][1], d, lvs)), "_removeLogVol", d, <<>>)

\* "d.size = n" on a logical volume that takes space in the group
VolSetSize(d, n) ==
    /\ d \in DOMAIN kind /\ kind[d] \in {"lv", "thinpool"}
    /\ SetSize(d, n)

\* "d.create()" on a logical volume
VolCreate(d) ==
    /\ d \in DOMAIN kind /\ kind[d] \in LVKinds
    /\ \E env \in ResizeEnvs, canUse \in VolFree :
          LET o == LVMLogicalVolumeDevice_createSized(d, env, canUse)
          IN  VolStep(Built(o.res, kind, parents, kids, applyMarks(exists, o.calls),
                            lvs, o.size, o.targetSize, o.attrs),
                      "create", d, o.calls)

\* "d.resize()" on a logical volume
VolResize(d) ==
    /\ d \in DOMAIN kind /\ kind[d] \in LVKinds
    /\ Resize(d)

ConstructLvAny ==
    \E d \in DOMAIN VolCatalogue, c \in {"vg0", "pool0"} : ConstructLv(d, c)

AddLogVolAny == \E d \in DOMAIN VolCatalogue : AddLogVol(d)

RemoveLogVolAny == \E d \in DOMAIN VolCatalogue : RemoveLogVol(d)

VolSetSizeAny == \E d \in DOMAIN VolCatalogue, n \in VolSizes : VolSetSize(d, n)

VolCreateAny == \E d \in DOMAIN VolCatalogue : VolCreate(d)

VolResizeAny == \E d \in DOMAIN VolCatalogue : VolResize(d)

\* Volumes are constructed, sized, created and resized.
NextVolumes ==
    \/ ConstructLvAny
    \/ VolSetSizeAny
    \/ VolCreateAny
    \/ VolResizeAny

SpecVolumes == InitVolumes /\ [][NextVolumes]_vars

\* Volumes are constructed, and put into and taken out of the LV lists.
NextLists ==
    \/ ConstructLvAny
    \/ AddLogVolAny
    \/ RemoveLogVolAny

SpecLists == InitVolumes /\ [][NextLists]_vars

\* The calls of the last operation that change a logical volume in the
\* volume manager.
VolumeMutations ==
    {i \in 1..Len(calls) :
        calls[i].e \in {"lvm.lvcreate", "lvm.thinpoolcreate", "lvm.thinlvcreate",
                        "lvm.lvresize"}}

\* The last operation failed for lack of space in the volume group:
\* _addLogVol refused a new volume (DeviceError), or the size setter refused
\* a size (ValueError), directly or inside create().
SpaceFailure ==
    \/ last.op = "__init__" /\ last.res = "DeviceError"
    \/ last.op \in {"_setSize", "create", "resize"} /\ last.res = "ValueError"

\* C11: when the construction, a size change, create() or resize() of a
\* logical volume fails for lack of space, the operation has issued no
\* lvcreate, thinpoolcreate, thinlvcreate or lvresize before.
C11_SpaceFailuresFirst == SpaceFailure => VolumeMutations = {}

\* C11: create() asked the volume manager for the free space, could not
\* shrink the volume into it and failed.
C11_ShrinkRefused ==
    /\ last.op = "create" /\ last.res = "ValueError"
    /\ \E i \in 1..Len(calls) : calls[i].e = "lvm.vginfo"

\* ------------------------------------------------------------------------
\* Properties of the lifecycle: what a failed commit or removal leaves
\* ------------------------------------------------------------------------

\* The partitions in a disk label after the calls cs, where add and remove
\* are the calls that put a partition into that label and take it out.
RECURSIVE labelAfter(_, _, _, _)
labelAfter(label, cs, add, remove) ==
    IF cs = <<>> THEN label
    ELSE LET c == Head(cs)
         IN  labelAfter(CASE c.e = add -> label \cup {c.d}
                          [] c.e = remove -> label \ {c.d}
                          [] OTHER -> label,
                        Tail(cs), add, remove)

\* The in-memory label of the disk after the last operation, when it held
\* the partitions in label before.
currentLabel(label) ==
    labelAfter(label, calls, "disklabel.addPartition", "disklabel.removePartition")

\* The original label of the disk after the last operation
originalLabel(label) ==
    labelAfter(label, calls, "originalFormat.addPartition",
               "originalFormat.removePartition")

\* C12: when create() of a partition reaches the commit of the label, the
\* partition was added to the in-memory label before; if the commit failed,
\* the label holds what it held before create(), DiskLabelCommitError
\* leaves create(), exists is not true and the setup of the partition was
\* not run; if it did not fail the partition is in the label.
C12_CreateRollsBack ==
    (last.op = "create" /\ kind[last.dev] = "partition"
        /\ \E n \in 1..Len(calls) : calls[n] = Ev("disklabel.commit", last.dev)) =>
        LET d == last.dev
            n == CHOOSE i \in 1..Len(calls) : calls[i] = Ev("disklabel.commit", d)
        IN  /\ \E j \in 1..(n - 1) : calls[j] = Ev("disklabel.addPartition", d)
            /\ IF ~(\E j \in 1..Len(calls) : calls[j] = Ev("exists=True", d))
               THEN /\ last.res = "DiskLabelCommitError"
                    /\ currentLabel({}) = {}
                    /\ exists[d] = last.pre /\ ~Truthy(exists[d])
                    /\ \A j \in 1..Len(calls) : calls[j] # Ev("setup", d)
               ELSE /\ d \in currentLabel({})
                    /\ exists[d] = "True"

\* C12: a create() of a partition has failed in the commit of the label.
C12_CommitFailed ==
    /\ last.op = "create" /\ kind[last.dev] = "partition"
    /\ last.res = "DiskLabelCommitError" /\ last.pre = "False"
    /\ calls[Len(calls)] = Ev("disklabel.removePartition", last.dev)

\* C13: when destroy() of a partition reaches the commit, it has removed the
\* partition from the original label and has not touched the current
\* in-memory label; if the commit of the original label failed, the
\* partition is in the original label again, DiskLabelCommitError leaves
\* destroy() and exists is still true; if it did not fail the partition is
\* out of the original label and exists is false.
C13_DestroyOriginalLabel ==
    (last.op = "destroy" /\ kind[last.dev] = "partition"
        /\ \E n \in 1..Len(calls) : calls[n].e \in {"originalFormat.commit",
                                                    "disklabel.commit"}) =>
        LET d == last.dev
            n == CHOOSE i \in 1..Len(calls) : calls[i] = Ev("originalFormat.commit", d)
        IN  /\ \E i \in 1..Len(calls) : calls[i] = Ev("originalFormat.commit", d)
            /\ \E j \in 1..(n - 1) : calls[j] = Ev("originalFormat.removePartition", d)
            /\ currentLabel({d}) = {d}
            /\ \A j \in 1..Len(calls) :
                  calls[j].e \notin {"disklabel.addPartition",
                                     "disklabel.removePartition", "disklabel.commit"}
            /\ IF last.res = "ok"
               THEN originalLabel({d}) = {} /\ exists[d] = "False"
               ELSE /\ last.res = "DiskLabelCommitError"
                    /\ originalLabel({d}) = {d}
                    /\ exists[d] = "True"

\* C13: a destroy() of a partition has failed in the commit of the original
\* label.
C13_CommitFailed ==
    /\ last.op = "destroy" /\ kind[last.dev] = "partition"
    /\ last.res = "DiskLabelCommitError" /\ exists[last.dev] = "True"
    /\ calls[Len(calls)] = Ev("originalFormat.addPartition", last.dev)

\* C14: when the removal of an existing volume group by the volume manager
\* fails in destroy(), the failure reaches the caller and exists is still
\* true.
C14_VgDestroyRestores ==
    (last.op = "destroy" /\ kind[last.dev] = "vg" /\ last.pre = "True"
        /\ last.res # "ok"
        /\ \E i \in 1..Len(calls) : calls[i] = Ev("lvm.vgreduce", last.dev))
        => exists[last.dev] = "True"

\* C14, the failing case: vgreduce failed, DeviceError reached the caller
\* and the volume group is marked as not existing.
C14_VgMarkedGone ==
    /\ last.op = "destroy" /\ kind[last.dev] = "vg" /\ last.pre = "True"
    /\ last.res = "DeviceError" /\ exists[last.dev] = "False"
    /\ \E i \in 1..Len(calls) : calls[i] = Ev("lvm.vgreduce", last.dev)

\* ------------------------------------------------------------------------
\* Partition resize geometry (sectors)
\* ------------------------------------------------------------------------

\* Largest target size (MB) the resize geometry is computed for.
MaxTargetMB == 4

\* A parted.Geometry: start sector and length in sectors.
Geometry(start, length) == [start |-> start, length |-> length]

geomEnd(g) == g.start + g.length - 1

\* libparted rounding of a sector to a multiple of the grain.
roundDownTo(s, grain) == s - (s % grain)

roundUpTo(s, grain) ==
    IF s % grain # 0 THEN roundDownTo(s, grain) + grain ELSE s

\* The aligned sector nearest to s that lies inside the geometry, moving by
\* whole grains; -1 when the geometry holds no such sector.
closestInsideGeometry(al, g, s) ==
    LET up == IF s < g.start THEN s + roundUpTo(g.start - s, al.grain) ELSE s
        dn == IF up > geomEnd(g) THEN up - roundUpTo(up - geomEnd(g), al.grain)
              ELSE up
    IN  IF dn < g.start THEN -1 ELSE dn

\* endAlignment.alignUp(geom, sector) / endAlignment.alignDown(geom, sector)
alignUp(al, g, s) ==
    closestInsideGeometry(al, g, roundUpTo(s - al.offset, al.grain) + al.offset)

alignDown(al, g, s) ==
    closestInsideGeometry(al, g, roundDownTo(s - al.offset, al.grain) + al.offset)

\* PartitionDevice._computeResize without the asymmetry: the end is always
\* aligned down inside the new geometry.
computeResize_alwaysDown(currentGeom, target, sectorSize, al) ==
    LET newLen == (target * 1024 * 1024) \div sectorSize
        newGeometry == Geometry(currentGeom.start, newLen)
        e == alignDown(al, newGeometry, geomEnd(newGeometry))
    IN  IF e < newGeometry.start
        THEN [res |-> "CreateException", geom |-> newGeometry]
        ELSE [res |-> "ok", geom |-> Geometry(newGeometry.start, e - newGeometry.start + 1)]

\* PartitionDevice._computeResize: the geometry the exact-geometry constraint
\* is built from. Assigning an end before the start is refused by parted.
computeResize(currentGeom, target, sectorSize, al) ==
    LET newLen == (target * 1024 * 1024) \div sectorSize
        newGeometry == Geometry(currentGeom.start, newLen)
        shrink == newGeometry.length < currentGeom.length
        e == IF shrink THEN alignUp(al, currentGeom, geomEnd(newGeometry))
             ELSE alignDown(al, newGeometry, geomEnd(newGeometry))
    IN  IF e < newGeometry.start
        THEN [res |-> "CreateException", geom |-> newGeometry]
        ELSE [res |-> "ok", geom |-> Geometry(newGeometry.start, e - newGeometry.start + 1)]

\* Disk labels: sector size and end alignment (grain, offset).
GeomSectorSizes == {512, 4096}

GeomAlignments ==
    {[grain |-> 1, offset |-> 0], [grain |-> 2048, offset |-> 0],
     [grain |-> 2048, offset |-> 2047], [grain |-> 256, offset |-> 255],
     [grain |-> 4096, offset |-> 4095]}

\* Current geometries of the partition: legacy and aligned starts, ends that
\* are and are not on a grain.
GeomCurrent ==
    {Geometry(s, l) : s \in {63, 2048}, l \in {600, 4096, 5000, 6244}}

\* A disk with one existing partition, its label's alignment, and a target
\* size that has been set on the partition.
InitGeometry ==
    \E g \in GeomCurrent, al \in GeomAlignments,
       ss \in GeomSectorSizes, t \in 1..MaxTargetMB :
        /\ kind = [disk0 |-> "disk", part0 |-> "partition"]
        /\ parents = [disk0 |-> <<>>, part0 |-> <<"disk0">>]
        /\ kids = [disk0 |-> 1, part0 |-> 0]
        /\ exists = [disk0 |-> "True", part0 |-> "True"]
        /\ sysfsPath = [disk0 |-> TRUE, part0 |-> TRUE]
        /\ lvs = [disk0 |-> <<>>, part0 |-> <<>>]
        /\ pvCount = [disk0 |-> 0, part0 |-> 0]
        /\ hasDuplicate = [disk0 |-> FALSE, part0 |-> FALSE]
        /\ size = [disk0 |-> 0, part0 |-> 0]
        /\ targetSize = [disk0 |-> 0, part0 |-> t]
        /\ attrs = [disk0 |-> [sectorSize |-> ss, endAlignment |-> al],
                    part0 |-> [geometry |-> g]]
        /\ calls = <<>>
        /\ last = NoOp
        /\ FormatIdle
        /\ rawCalls = 0

\* part0._computeResize(partition)
ComputeResize(d) ==
    /\ kind[d] = "partition"
    /\ last.op = "init"
    /\ LET disk == parents[d][1]
           o == computeResize(attrs[d].geometry, targetSize[d],
                              attrs[disk].sectorSize, attrs[disk].endAlignment)
       IN  last' = [op |-> "_computeResize", dev |-> d, res |-> o.res,
                    pre |-> "n/a", cd |-> "n/a", kidsPre |-> <<>>,
                    geom |-> o.geom]
    /\ UNCHANGED <<gvars, fvars, svars, rawCalls, calls>>

ComputeResizeAny == \E d \in DOMAIN kind : ComputeResize(d)

NextGeometry == ComputeResizeAny

SpecGeometry == InitGeometry /\ [][NextGeometry]_vars

\* The sectors of [lo, hi] the end alignment allows.
AlignedIn(al, lo, hi) == {s \in lo..hi : (s - al.offset) % al.grain = 0}

isExtended(d) == attrs[d].partType = "extended"

isLogical(d) == attrs[d].partType = "logical"

disk(d) == parents[d][1]

RECURSIVE Device_dependsOn_direct(_, _)
RECURSIVE Device_dependsOn(_, _)
RECURSIVE PartitionDevice_dependsOn(_, _)
RECURSIVE dependsOn(_, _)

\* Device.dependsOn without the loop over the parents.
Device_dependsOn_direct(a, dep) ==
    \E i \in 1..Len(parents[a]) : parents[a][i] = dep

\* Device.dependsOn
Device_dependsOn(a, dep) ==
    IF \E i \in 1..Len(parents[a]) : parents[a][i] = dep THEN TRUE
    ELSE \E i \in 1..Len(parents[a]) : dependsOn(parents[a][i], dep)

\* PartitionDevice.dependsOn
PartitionDevice_dependsOn(a, dep) ==
    IF kind[dep] = "partition" /\ isExtended(dep) /\ isLogical(a)
          /\ disk(a) = disk(dep)
    THEN TRUE
    ELSE Device_dependsOn(a, dep)

\* a.dependsOn(dep), dispatched on the class of a
dependsOn(a, dep) ==
    IF kind[a] = "partition" THEN PartitionDevice_dependsOn(a, dep)
    ELSE Device_dependsOn(a, dep)

\* Acyclic device graphs: partitions of two disks, with an extended and a
\* logical partition and an encrypted device on the logical one; an array
\* on two partitions of one disk under a volume group (two paths to the
\* disk); a chain over a partition that is not on disk yet (partType None);
\* two logical volumes of a volume group on two physical volumes.
DepGraphs ==
    {[kind |-> [disk0 |-> "disk", disk1 |-> "disk", ext0 |-> "partition",
                log0 |-> "partition", prim0 |-> "partition",
                ext1 |-> "partition", luks0 |-> "luks"],
      parents |-> [disk0 |-> <<>>, disk1 |-> <<>>, ext0 |-> <<"disk0">>,
                   log0 |-> <<"disk0">>, prim0 |-> <<"disk0">>,
                   ext1 |-> <<"disk1">>, luks0 |-> <<"log0">>],
      partType |-> [disk0 |-> "n/a", disk1 |-> "n/a", ext0 |-> "extended",
                    log0 |-> "logical", prim0 |-> "normal",
                    ext1 |-> "extended", luks0 |-> "n/a"]],
     [kind |-> [disk0 |-> "disk", part0 |-> "partition", part1 |-> "partition",
                md0 |-> "md", vg0 |-> "vg", lv0 |-> "lv"],
      parents |-> [disk0 |-> <<>>, part0 |-> <<"disk0">>, part1 |-> <<"disk0">>,
                   md0 |-> <<"part0", "part1">>, vg0 |-> <<"md0">>,
                   lv0 |-> <<"vg0">>],
      partType |-> [disk0 |-> "n/a", part0 |-> "normal", part1 |-> "normal",
                    md0 |-> "n/a", vg0 |-> "n/a", lv0 |-> "n/a"]],
     [kind |-> [disk0 |-> "disk", part0 |-> "partition", luks0 |-> "luks",
                vg0 |-> "vg"],
      parents |-> [disk0 |-> <<>>, part0 |-> <<"disk0">>, luks0 |-> <<"part0">>,
                   vg0 |-> <<"luks0">>],
      partType |-> [disk0 |-> "n/a", part0 |-> "None", luks0 |-> "n/a",
                    vg0 |-> "n/a"]],
     [kind |-> [pv0 |-> "storage", pv1 |-> "storage", vg0 |-> "vg",
                lv0 |-> "lv", lv1 |-> "lv"],
      parents |-> [pv0 |-> <<>>, pv1 |-> <<>>, vg0 |-> <<"pv0", "pv1">>,
                   lv0 |-> <<"vg0">>, lv1 |-> <<"vg0">>],
      partType |-> [pv0 |-> "n/a", pv1 |-> "n/a", vg0 |-> "n/a",
                    lv0 |-> "n/a", lv1 |-> "n/a"]]}

InitDepends ==
    \E g \in DepGraphs :
        /\ kind = g.kind
        /\ parents = g.parents
        /\ kids = [d \in DOMAIN g.kind |-> Occurrences(g.parents, d)]
        /\ exists = [d \in DOMAIN g.kind |-> "True"]
        /\ sysfsPath = [d \in DOMAIN g.kind |-> TRUE]
        /\ lvs = [d \in DOMAIN g.kind |-> <<>>]
        /\ pvCount = [d \in DOMAIN g.kind |-> IF g.kind[d] = "vg" THEN 1 ELSE 0]
        /\ hasDuplicate = [d \in DOMAIN g.kind |-> FALSE]
        /\ attrs = [d \in DOMAIN g.kind |-> [partType |-> g.partType[d]]]
        /\ size = [d \in DOMAIN g.kind |-> 0]
        /\ targetSize = size
        /\ calls = <<>>
        /\ last = NoOp
        /\ FormatIdle
        /\ rawCalls = 0

\* a.dependsOn(dep)
DependsOn(a, dep) ==
    /\ last' = [op |-> "dependsOn", dev |-> a, res |-> dependsOn(a, dep),
                pre |-> "n/a", cd |-> "n/a", kidsPre |-> <<>>, arg |-> dep]
    /\ UNCHANGED <<gvars, fvars, svars, rawCalls, calls>>

DependsOnAny == \E a \in DOMAIN kind, dep \in DOMAIN kind : DependsOn(a, dep)

NextDepends == DependsOnAny

SpecDepends == InitDepends /\ [][NextDepends]_vars

\* The devices reachable from a set of devices by at most n parent edges,
\* the set included.
RECURSIVE UpTo(_, _)
UpTo(S, n) ==
    IF n = 0 THEN S
    ELSE UpTo(S \cup {parents[d][i] : <<d, i>> \in
                        {p \in S \X (1..Cardinality(DOMAIN kind)) :
                            p[2] <= Len(parents[p[1]])}}, n - 1)

\* The devices reachable from a by one or more parent edges.
Ancestors(a) ==
    UpTo({parents[a][i] : i \in 1..Len(parents[a])}, Cardinality(DOMAIN kind))

\* dep is an extended partition of the disk of the logical partition x.
ExtendedOf(x, dep) ==
    /\ kind[x] = "partition" /\ attrs[x].partType = "logical"
    /\ kind[dep] = "partition" /\ attrs[dep].partType = "extended"
    /\ parents[x][1] = parents[dep][1]

\* C16: a.dependsOn(b) returns, and it is true exactly when b is reachable
\* from a by one or more parent edges, or b is an extended partition of the
\* disk of a logical partition that is a itself or is reachable from a.
C16_DependsOnReachable ==
    last.op = "dependsOn" =>
        LET a == last.dev
            b == last.arg
        IN  last.res = (\/ b \in Ancestors(a)
                        \/ \E x \in {a} \cup Ancestors(a) : ExtendedOf(x, b))

\* C16: a device on a logical partition was asked for the extended
\* partition of the same disk.
C16_ThroughLogical ==
    /\ last.op = "dependsOn" /\ last.res = TRUE
    /\ kind[last.dev] # "partition"
    /\ last.arg \notin Ancestors(last.dev)
    /\ \E x \in Ancestors(last.dev) : ExtendedOf(x, last.arg)

\* C16 as stated: a.dependsOn(b) is true exactly when b is reachable from a
\* by one or more parent edges, or a is a logical partition and b an
\* extended partition of the same disk.
C16_OnlyLogicalItself ==
    last.op = "dependsOn" =>
        LET a == last.dev
            b == last.arg
        IN  last.res = (b \in Ancestors(a) \/ ExtendedOf(a, b))

\* ------------------------------------------------------------------------
\* Properties of the LV lists
\* ------------------------------------------------------------------------

\* The thin logical volumes that have been constructed.
ThinVolumes == {d \in DOMAIN kind : kind[d] = "thinlv"}

\* C17: whatever thin volumes have been added to and removed from a thin
\* pool, and however those calls ended, a thin logical volume is in the LV
\* list of its pool exactly when it is in the LV list of the volume group
\* of the pool.
C17_PoolAndGroupAgree ==
    \A t \in ThinVolumes :
        LET pool == parents[t][1]
        IN  In(t, lvs[pool]) <=> In(t, lvs[parents[pool][1]])

\* C17: a thin volume that is in neither list was refused by _removeLogVol
\* of its pool.
C17_RemoveRefused ==
    /\ last.op = "_removeLogVol" /\ last.res = "ValueError"
    /\ last.dev \in ThinVolumes
    /\ ~In(last.dev, lvs[parents[last.dev][1]])

\* How often x is in the list l.
Times(x, l) == Cardinality({i \in 1..Len(l) : l[i] = x})

\* LVMLogicalVolumeDevice.vg / LVMThinLogicalVolumeDevice.vg after a step
vgAfter(d) ==
    IF kind'[d] = "thinlv" THEN parents'[parents'[d][1]][1] ELSE parents'[d][1]

\* C18: after every step, every entry of a volume group's LV list is a
\* constructed logical volume whose vg is that group and is in the list
\* once; a logical volume is in the list of its group once after its
\* constructor or _addLogVol returned, is not in it after _removeLogVol
\* returned, and is in it as often as before after any other call, refused
\* calls included: _addLogVol inserts no duplicate and _removeLogVol takes
\* out the given entry and no other.
C18_ListsAgree ==
    [][ /\ \A v \in DOMAIN kind' :
              kind'[v] = "vg" =>
                 \A i \in 1..Len(lvs'[v]) :
                    LET e == lvs'[v][i]
                    IN  /\ e \in DOMAIN kind' /\ kind'[e] \in LVKinds
                        /\ vgAfter(e) = v
                        /\ Times(e, lvs'[v]) = 1
        /\ \A d \in DOMAIN kind' :
              kind'[d] \in LVKinds =>
                 Times(d, lvs'[vgAfter(d)]) =
                    IF last'.dev = d /\ last'.res = "ok"
                    THEN IF last'.op = "_removeLogVol" THEN 0 ELSE 1
                    ELSE Times(d, lvs[vgOf(d)]) ]_vars

\* C18: _removeLogVol has taken a constructed logical volume out of the
\* list of the group it still names as its parent.
C18_Removed ==
    /\ last.op = "_removeLogVol" /\ last.res = "ok"
    /\ kind[last.dev] = "lv"
    /\ parents[last.dev] = <<"vg0">>
    /\ ~In(last.dev, lvs["vg0"])

\* C18 as stated: in every state every constructed logical volume is once
\* in the LV list of its group, and every entry of a group's list has that
\* group as its vg.
C18_AlwaysListed ==
    /\ \A d \in DOMAIN kind :
          kind[d] \in LVKinds => Times(d, lvs[vgOf(d)]) = 1
    /\ \A v \in DOMAIN kind :
          kind[v] = "vg" => \A i \in 1..Len(lvs[v]) : vgOf(lvs[v][i]) = v

\* ------------------------------------------------------------------------
\* Extent alignment in kilobytes
\* ------------------------------------------------------------------------

\* Sizes handed to align are the multiples of AlignStepKb up to
\* MaxAlignSteps of them.
AlignStepKb == 100

MaxAlignSteps == 60

\* LVMVolumeGroupDevice.align that counts one extent more than math.ceil
\* when rounding up.
alignKb_extra(peKb, sizeKb, roundup) ==
    LET n == IF roundup THEN sizeKb \div peKb + 1 ELSE sizeKb \div peKb
    IN  (n * peKb) \div 1024

\* LVMVolumeGroupDevice.align on kilobytes: sizeKb is size * 1024.0, peKb is
\* self.peSize * 1024.0; the extents are counted with math.ceil or
\* math.floor, and long() cuts the megabytes to a whole number.
alignKb(peKb, sizeKb, roundup) ==
    LET n == IF roundup THEN (sizeKb + peKb - 1) \div peKb ELSE sizeKb \div peKb
    IN  (n * peKb) \div 1024

\* Extent sizes in KB: below, at and above one megabyte, whole and broken
\* numbers of megabytes.
AlignExtentsKb == {1, 512, 1000, 1024, 1536, 4096}

\* A volume group with its extent size.
InitAlign ==
    \E pe \in AlignExtentsKb :
        /\ kind = [pv0 |-> "storage", vg0 |-> "vg"]
        /\ parents = [pv0 |-> <<>>, vg0 |-> <<"pv0">>]
        /\ kids = [pv0 |-> 1, vg0 |-> 0]
        /\ exists = [pv0 |-> "True", vg0 |-> "False"]
        /\ sysfsPath = [pv0 |-> TRUE, vg0 |-> TRUE]
        /\ lvs = [pv0 |-> <<>>, vg0 |-> <<>>]
        /\ pvCount = [pv0 |-> 0, vg0 |-> 1]
        /\ hasDuplicate = [pv0 |-> FALSE, vg0 |-> FALSE]
        /\ size = [pv0 |-> 0, vg0 |-> 0]
        /\ targetSize = size
        /\ attrs = [pv0 |-> [peSizeKb |-> 0], vg0 |-> [peSizeKb |-> pe]]
        /\ calls = <<>>
        /\ last = NoOp
        /\ FormatIdle
        /\ rawCalls = 0

\* The record of one call of align: cd tells whether the argument was the
\* result of the call before.
Aligned(vg, again, sizeKb, roundup) ==
    [op |-> "align", dev |-> vg, res |-> alignKb(attrs[vg].peSizeKb, sizeKb, roundup),
     pre |-> roundup, cd |-> again, kidsPre |-> <<>>, arg |-> sizeKb]

\* "vg.align(size, roundup)"
Align(vg, sizeKb, roundup) ==
    /\ kind[vg] = "vg"
    /\ last' = Aligned(vg, "first", sizeKb, roundup)
    /\ UNCHANGED <<gvars, fvars, svars, rawCalls, calls>>

\* "vg.align(r, roundup)" for the result r (MB) of the call before
AlignAgain(vg) ==
    /\ kind[vg] = "vg"
    /\ last.op = "align" /\ last.dev = vg /\ last.cd = "first"
    /\ last' = Aligned(vg, "again", last.res * 1024, last.pre)
    /\ UNCHANGED <<gvars, fvars, svars, rawCalls, calls>>

AlignAny ==
    \E vg \in DOMAIN kind, k \in 1..MaxAlignSteps, roundup \in BOOLEAN :
        Align(vg, k * AlignStepKb, roundup)

AlignAgainAny == \E vg \in DOMAIN kind : AlignAgain(vg)

NextAlign == AlignAny \/ AlignAgainAny

SpecAlign == InitAlign /\ [][NextAlign]_vars

\* C19: when align, rounding up, is given the result of align rounding up,
\* it returns that result; this holds for every extent size and every
\* positive size.
C19_AlignUpIdempotent ==
    [][(last'.op = "align" /\ last'.cd = "again" /\ last'.pre = TRUE)
          => last'.res = last.res]_vars

\* C19: align, rounding up, has been given its own result, which is larger
\* than the size it was computed from and no whole number of extents.
C19_AlignedTwice ==
    /\ last.op = "align" /\ last.cd = "again" /\ last.pre = TRUE
    /\ last.res > 0
    /\ last.arg % attrs[last.dev].peSizeKb # 0

\* ------------------------------------------------------------------------
\* Construction of a volume group on sized physical volumes
\* ------------------------------------------------------------------------

\* The peSize argument of the constructor: 0 stands for "not given".
VgPeSizes == {0, 4, 8}

\* self.peSize after the constructor
LVMVolumeGroupDevice_peSize(pe) == IF pe = 0 THEN DefaultPeSize ELSE pe

\* Two physical volumes with their sizes (MB) and the space their formats
\* reserve at the start (peStart).
InitVg ==
    \E s0 \in {1000, 6, 1}, s1 \in {500, 0}, h0 \in {1, 2} :
        /\ kind = [pv0 |-> "storage", pv1 |-> "storage"]
        /\ parents = [pv0 |-> <<>>, pv1 |-> <<>>]
        /\ kids = [pv0 |-> 0, pv1 |-> 0]
        /\ exists = [pv0 |-> "True", pv1 |-> "True"]
        /\ sysfsPath = [pv0 |-> TRUE, pv1 |-> TRUE]
        /\ lvs = [pv0 |-> <<>>, pv1 |-> <<>>]
        /\ pvCount = [pv0 |-> 0, pv1 |-> 0]
        /\ hasDuplicate = [pv0 |-> FALSE, pv1 |-> FALSE]
        /\ size = [pv0 |-> s0, pv1 |-> s1]
        /\ targetSize = size
        /\ attrs = [pv0 |-> [DefaultAttrs EXCEPT !.peStart = h0],
                    pv1 |-> [DefaultAttrs EXCEPT !.peStart = 1]]
        /\ calls = <<>>
        /\ last = NoOp
        /\ FormatIdle
        /\ rawCalls = 0

\* "LVMVolumeGroupDevice(name, parents=ps, peSize=pe, pvCount=pvc,
\* exists=e)"
ConstructVg(d, ps, e, pe, pvc) ==
    /\ d \notin DOMAIN kind
    /\ \E pvOk \in BOOLEAN :
          LET g == LVMVolumeGroupDevice_init(d, ps, e, pvOk, pvc)
              made == g.res = "ok"
          IN  /\ GraphStep(g, "__init__", d)
              /\ size' = IF made THEN size @@ (d :> 0) ELSE size
              /\ targetSize' = IF made THEN targetSize @@ (d :> 0) ELSE targetSize
              /\ attrs' = IF made
                          THEN attrs @@ (d :> [DefaultAttrs EXCEPT
                                   !.peSize = LVMVolumeGroupDevice_peSize(pe)])
                          ELSE attrs
    /\ UNCHANGED <<fvars, rawCalls>>

ConstructVgAny ==
    \E ps \in {<<"pv0">>, <<"pv0", "pv1">>, <<"pv1", "pv0">>},
       e \in {"None", "False", "True"}, pe \in VgPeSizes, pvc \in {0, 2} :
        ConstructVg("vg0", ps, e, pe, pvc)

NextVg == ConstructVgAny

SpecVg == InitVg /\ [][NextVg]_vars

\* The space of a physical volume that a group with extents of pe MB can
\* use: what is left after the reserved start, in whole extents, and
\* nothing when the volume is smaller than its reserved start.
UsablePv(pv, pe) ==
    LET left == size[pv] - attrs[pv].peStart
    IN  IF left < 0 THEN 0 ELSE left - (left % pe)

\* C20: a volume group constructed as not existing has pvCount equal to the
\* number of its parents and is complete; the size of every constructed
\* group is the sum over its physical volumes of the whole extents left
\* after the reserved start, never less than 0 for a volume; on physical
\* volumes of 1000 MB and 500 MB with 1 MB reserved each and extents of
\* 4 MB that is 996 + 496 = 1492 MB with pvCount 2.
C20_NewVolumeGroup ==
    (last.op = "__init__" /\ last.res = "ok" /\ last.dev \in DOMAIN kind
        /\ kind[last.dev] = "vg") =>
        LET vg == last.dev
            pe == attrs[vg].peSize
        IN  /\ vgSize(vg, size, targetSize)
                  = Sum([i \in 1..Len(parents[vg]) |-> UsablePv(parents[vg][i], pe)])
            /\ ~Truthy(exists[vg]) =>
                  /\ pvCount[vg] = Len(parents[vg])
                  /\ complete(vg, exists)
            /\ (/\ ~Truthy(exists[vg]) /\ pe = 4
                /\ Len(parents[vg]) = 2
                /\ size["pv0"] = 1000 /\ size["pv1"] = 500
                /\ attrs["pv0"].peStart = 1 /\ attrs["pv1"].peStart = 1) =>
                  /\ vgSize(vg, size, targetSize) = 1492
                  /\ pvCount[vg] = 2

\* C20: the new volume group on the physical volumes of 1000 MB and 500 MB
\* has been constructed with the default extent size.
C20_Scenario ==
    /\ last.op = "__init__" /\ last.res = "ok"
    /\ "vg0" \in DOMAIN kind
    /\ exists["vg0"] = "False"
    /\ parents["vg0"] = <<"pv0", "pv1">>
    /\ size["pv0"] = 1000 /\ size["pv1"] = 500
    /\ attrs["pv0"].peStart = 1 /\ attrs["pv1"].peStart = 1
    /\ attrs["vg0"].peSize = 4
    /\ vgSize("vg0", size, targetSize) = 1492
    /\ complete("vg0", exists)

\* ------------------------------------------------------------------------
\* Duplicate volume groups
\* ------------------------------------------------------------------------

\* An existing volume group that has been found with none or one of the
\* pvCount physical volumes it is made of; two partitions hold PV formats.
InitDuplicate ==
    \E ps \in {<<>>, <<"part0">>}, pvc \in {1, 2} :
        /\ kind = [disk0 |-> "disk", part0 |-> "partition", part1 |-> "partition",
                   vg0 |-> "vg"]
        /\ parents = [disk0 |-> <<>>, part0 |-> <<"disk0">>, part1 |-> <<"disk0">>,
                      vg0 |-> ps]
        /\ kids = [d \in DOMAIN kind |-> Occurrences(parents, d)]
        /\ exists = [d \in DOMAIN kind |-> "True"]
        /\ sysfsPath = [d \in DOMAIN kind |-> TRUE]
        /\ lvs = [d \in DOMAIN kind |-> <<>>]
        /\ pvCount = [d \in DOMAIN kind |-> IF d = "vg0" THEN pvc ELSE 0]
        /\ hasDuplicate = [d \in DOMAIN kind |-> FALSE]
        /\ calls = <<>>
        /\ last = NoOp
        /\ FormatIdle
        /\ rawCalls = 0
        /\ SizeIdle

\* Physical volumes are added to and taken out of the group, and devices
\* are destroyed.
NextDuplicate ==
    \/ VgAddDeviceAny
    \/ RemoveDeviceAny
    \/ DestroyAny

SpecDuplicate == InitDuplicate /\ [][NextDuplicate]_vars

\* C21: a volume group whose hasDuplicate flag is set is not complete,
\* whatever the number of its physical volumes and its exists flag; and
\* _addDevice does not call setup() on the group when the group has a uuid
\* and the physical volume names another one, nor whenever the flag is set
\* after the call.
C21_DuplicateNeverComplete ==
    /\ \A vg \in DOMAIN kind :
          (kind[vg] = "vg" /\ hasDuplicate[vg]) => ~complete(vg, exists)
    /\ (last.op = "_addDevice" /\ kind[last.dev] = "vg") =>
          /\ (last.arg.hasUuid /\ last.arg.uuidDiffers /\ Truthy(exists[last.dev]))
                => (hasDuplicate[last.dev] \/ last.res = "ValueError")
          /\ (hasDuplicate[last.dev] \/ (last.arg.hasUuid /\ last.arg.uuidDiffers))
                => calls = <<>>

\* C21: a physical volume naming another uuid has been added as the last
\* one the group was waiting for, and the group has not been set up.
C21_ForeignPvAdded ==
    /\ last.op = "_addDevice" /\ last.res = "ok"
    /\ last.arg.hasUuid /\ last.arg.uuidDiffers
    /\ last.pre = FALSE
    /\ hasDuplicate[last.dev]
    /\ Len(parents[last.dev]) = pvCount[last.dev]
    /\ calls = <<>>

\* C21 as stated: adding a physical volume whose volume group uuid is not
\* the uuid of the group never sets the group up.
C21_DifferentUuidNeverSetup ==
    (last.op = "_addDevice" /\ kind[last.dev] = "vg" /\ last.arg.uuidDiffers)
        => calls = <<>>

\* ------------------------------------------------------------------------
\* MD RAID arrays: sizes and device counts
\* ------------------------------------------------------------------------

\* Most devices an array is described with (the memberDevices and
\* totalDevices arguments, the value given to spares).
MaxMembers == 4

\* mdraid.get_raid_min_members(level)
RaidMinMembers(level) ==
    CASE level \in {"RAID4", "RAID5"} -> 3
      [] level = "RAID6" -> 4
      [] OTHER -> 2

\* The size of self.smallestMember
smallestMemberSize(d) ==
    LET sizes == {getSize(parents[d][i], size, targetSize) : i \in 1..Len(parents[d])}
    IN  CHOOSE s \in sizes : \A t \in sizes : s <= t

\* MDRaidArrayDevice.rawArraySize (MB); member sizes are even, so the RAID10
\* half is a whole number.
rawArraySize(d) ==
    LET s == smallestMemberSize(d)
        n == attrs[d].memberDevices
    IN  CASE attrs[d].level = "RAID0" -> n * s
          [] attrs[d].level = "RAID1" -> s
          [] attrs[d].level \in {"RAID4", "RAID5"} -> (n - 1) * s
          [] attrs[d].level = "RAID6" -> (n - 2) * s
          [] attrs[d].level = "RAID10" -> (n * s) \div 2
          [] OTHER -> s

\* "while headroom << 10 > array_size: headroom >>= 1", from headroom h on.
\* The result is the headroom the loop ends with, and -1 when the loop
\* cannot end: headroom is 0 and 0 is still above the array size.
RECURSIVE headroomLoop(_, _)
headroomLoop(h, arraySize) ==
    IF h * 1024 > arraySize
    THEN IF h = 0 THEN -1 ELSE headroomLoop(h \div 2, arraySize)
    ELSE h

\* MDRaidArrayDevice.superBlockSize (MB; -1: the property does not return)
superBlockSize(d) ==
    IF attrs[d].metadataVersion \notin {"1.1", "1.2"} THEN 2
    ELSE headroomLoop(128, rawArraySize(d))

\* "size -= size % self.chunkSize" with the chunk size of 0.5 MB, on whole
\* megabytes (counted in half megabytes, the chunk is 1)
chunkAligned(s) == ((2 * s) - ((2 * s) % 1)) \div 2

\* A property that returned v, and one that does not return.
Returned(v) == [res |-> "ok", val |-> v]

NeverReturns == [res |-> "never returns", val |-> 0]

\* The size an array computes from its members, before the megabyte for
\* unexpected metadata is taken off.
computedRaidSize(d) ==
    LET s == smallestMemberSize(d) - superBlockSize(d)
        n == attrs[d].memberDevices
    IN  CASE attrs[d].level = "RAID0" -> chunkAligned(n * s)
          [] attrs[d].level = "RAID1" -> s
          [] attrs[d].level \in {"RAID4", "RAID5"} -> chunkAligned((n - 1) * s)
          [] attrs[d].level = "RAID6" -> chunkAligned((n - 2) * s)
          [] attrs[d].level = "RAID10" -> chunkAligned((n * s) \div 2)
          [] OTHER -> 0

\* MDRaidArrayDevice.size without the megabyte taken off for unexpected
\* metadata.
MDRaidArrayDevice_size_unreserved(d) ==
    IF parents[d] = <<>> THEN Returned(0)
    ELSE IF superBlockSize(d) < 0 THEN NeverReturns
    ELSE IF ~Truthy(exists[d]) \/ ~hasParted(d) THEN Returned(computedRaidSize(d))
    ELSE Returned(attrs[d].partedSize)

\* MDRaidArrayDevice.size of an array that is no BIOS RAID set.  The
\* superblock size is computed first, also for an array whose size parted
\* knows.
MDRaidArrayDevice_size(d) ==
    IF parents[d] = <<>> THEN Returned(0)
    ELSE IF superBlockSize(d) < 0 THEN NeverReturns
    ELSE IF ~Truthy(exists[d]) \/ ~hasParted(d) THEN Returned(computedRaidSize(d) - 1)
    ELSE Returned(attrs[d].partedSize)

\* The levels of an array; "None" when no level was given.
RaidLevels == {"RAID0", "RAID1", "RAID4", "RAID5", "RAID6", "RAID10", "None"}

\* Four member devices of base, base + 50, base + 100 and base + 200 MB, and
\* an array on the first two, three or four of them, as its constructor
\* leaves it: a new array has the members its level asks for, memberDevices
\* and totalDevices are 0 when they were not given, the metadata version is
\* "1.1" unless one was given.
InitRaid ==
    \E base \in {0, 100, 4000, 200000}, n \in 2..4, level \in RaidLevels,
       md \in 0..MaxMembers, td \in {0, MaxMembers}, mv \in {"1.0", "1.1"},
       e \in {"False", "True"}, hp \in BOOLEAN :
        /\ Truthy(e) \/ (n >= RaidMinMembers(level) /\ ~hp)
        /\ md \in {0, n - 1, n}
        /\ kind = [m0 |-> "storage", m1 |-> "storage", m2 |-> "storage",
                   m3 |-> "storage", md0 |-> "md"]
        /\ parents = [m0 |-> <<>>, m1 |-> <<>>, m2 |-> <<>>, m3 |-> <<>>,
                      md0 |-> SubSeq(<<"m0", "m1", "m2", "m3">>, 1, n)]
        /\ kids = [d \in DOMAIN kind |-> Occurrences(parents, d)]
        /\ exists = [d \in DOMAIN kind |-> IF d = "md0" THEN e ELSE "True"]
        /\ sysfsPath = [d \in DOMAIN kind |-> TRUE]
        /\ lvs = [d \in DOMAIN kind |-> <<>>]
        /\ pvCount = [d \in DOMAIN kind |-> 0]
        /\ hasDuplicate = [d \in DOMAIN kind |-> FALSE]
        /\ size = [m0 |-> base, m1 |-> base + 50, m2 |-> base + 100,
                   m3 |-> base + 200, md0 |-> 0]
        /\ targetSize = size
        /\ attrs = [d \in DOMAIN kind |->
                      IF d = "md0"
                      THEN [level |-> level, memberDevices |-> md,
                            totalDevices |-> td, metadataVersion |-> mv]
                           @@ [DefaultAttrs EXCEPT !.hasParted = hp,
                                                   !.partedSize = base + 7]
                      ELSE DefaultAttrs]
        /\ calls = <<>>
        /\ last = NoOp
        /\ FormatIdle
        /\ rawCalls = 0

\* The record of a property read or an assignment on an array.
RaidStep(op, d, o, arg) ==
    last' = [op |-> op, dev |-> d, res |-> o.res, val |-> o.val, pre |-> "n/a",
             cd |-> "n/a", kidsPre |-> <<>>, arg |-> arg]

\* "array.size"
ReadRaidSize(d) ==
    /\ kind[d] = "md"
    /\ RaidStep("size", d, MDRaidArrayDevice_size(d), 0)
    /\ UNCHANGED <<gvars, fvars, svars, rawCalls, calls>>

ReadRaidSizeAny == \E d \in DOMAIN kind : ReadRaidSize(d)

\* "array.superBlockSize"
ReadSuperBlockSize(d) ==
    /\ kind[d] = "md"
    /\ RaidStep("superBlockSize", d,
                IF superBlockSize(d) < 0 THEN NeverReturns
                ELSE Returned(superBlockSize(d)),
                rawArraySize(d))
    /\ UNCHANGED <<gvars, fvars, svars, rawCalls, calls>>

ReadSuperBlockSizeAny == \E d \in DOMAIN kind : ReadSuperBlockSize(d)

NextRaid ==
    \/ ReadRaidSizeAny
    \/ ReadSuperBlockSizeAny

SpecRaid == InitRaid /\ [][NextRaid]_vars

\* C22: the size of a level-1 array that has not been created and whose
\* size is computed is the size of its smallest member minus the
\* superblock size minus one megabyte; with members of 100, 150 and 200 MB
\* it is 99 - superBlockSize.
C22_Raid1Size ==
    (/\ last.op = "size" /\ last.res = "ok"
     /\ attrs[last.dev].level = "RAID1" /\ ~Truthy(exists[last.dev])) =>
        /\ last.val = smallestMemberSize(last.dev) - superBlockSize(last.dev) - 1
        /\ (size["m0"] = 100 /\ Len(parents[last.dev]) = 3) =>
               last.val = 99 - superBlockSize(last.dev)

\* C22: the size of a new level-1 array on members of 100, 150 and 200 MB
\* has been read.
C22_ThreeMembers ==
    /\ last.op = "size" /\ last.res = "ok"
    /\ attrs[last.dev].level = "RAID1" /\ exists[last.dev] = "False"
    /\ parents[last.dev] = <<"m0", "m1", "m2">>
    /\ size["m0"] = 100 /\ size["m1"] = 150 /\ size["m2"] = 200
    /\ last.val = 99 - superBlockSize(last.dev)

\* C22 as stated: the size of a level-1 array that has not been created is
\* the size of its smallest member minus the superblock size.
C22_SmallestMinusSuperBlock ==
    (/\ last.op = "size" /\ last.res = "ok"
     /\ attrs[last.dev].level = "RAID1" /\ ~Truthy(exists[last.dev])) =>
        last.val = smallestMemberSize(last.dev) - superBlockSize(last.dev)

\* ------------------------------------------------------------------------
\* setup(), teardown() and destroy() on devices of every kind, existing or not
\* ------------------------------------------------------------------------
\* Every device of the graph carries the same exists flag; a DiskDevice can be
\* constructed with exists=False like any other device.
InitCalls ==
    \E g \in LifeGraphs :
        /\ kind = g.kind
        /\ parents = g.parents
        /\ kids = [d \in DOMAIN g.kind |-> Occurrences(g.parents, d)]
        /\ exists \in { [d \in DOMAIN g.kind |-> e] : e \in {"None", "False", "True"} }
        /\ sysfsPath = [d \in DOMAIN g.kind |-> TRUE]
        /\ lvs = g.lvs
        /\ pvCount = [d \in DOMAIN g.kind |-> Len(g.parents[d])]
        /\ hasDuplicate = [d \in DOMAIN g.kind |-> FALSE]
        /\ calls = <<>>
        /\ last = NoOp
        /\ FormatIdle
        /\ rawCalls = 0
        /\ SizeIdle

CallStep(op, d, o, arg) ==
    /\ exists' = applyMarks(exists, o.calls)
    /\ calls' = o.calls
    /\ last' = [op |-> op, dev |-> d, res |-> o.res, pre |-> exists[d],
                cd |-> "n/a", kidsPre |-> kids, arg |-> arg]
    /\ kids' = applyChildCalls(kids, o.calls)
    /\ UNCHANGED <<kind, parents, sysfsPath, lvs, pvCount, hasDuplicate>>
    /\ UNCHANGED <<fvars, rawCalls, svars>>

\* d.setup(orig=orig)
Setup(d) ==
    \E env \in Envs, orig \in BOOLEAN :
        CallStep("setup", d, setup(d, orig, env, exists), orig)

\* d.teardown(recursive=recursive)
Teardown(d) ==
    \E env \in Envs, recursive \in BOOLEAN :
        CallStep("teardown", d, teardown(d, recursive, env, exists), recursive)

\* d.destroy()
DestroyCall(d) ==
    \E env \in Envs : CallStep("destroy", d, destroy(d, env, exists), FALSE)

SetupAny == \E d \in DOMAIN kind : Setup(d)

TeardownAny == \E d \in DOMAIN kind : Teardown(d)

DestroyCallAny == \E d \in DOMAIN kind : DestroyCall(d)

NextCalls == SetupAny \/ TeardownAny \/ DestroyCallAny

SpecCalls == InitCalls /\ [][NextCalls]_vars

\* The events of the last operation that are not the announcement of the
\* operation itself on the device it was called on.
BeforeError ==
    { i \in 1..Len(calls) :
        ~(calls[i].d = last.dev /\ calls[i].e \in {"setup", "teardown", "destroy"}) }

\* C23: setup(), destroy() or a non-recursive teardown() of a device whose
\* exists flag is not true ends in DeviceError, and nothing has been done to a
\* parent, to the format or through an external tool before the error.
C23_NonexistentRefusedFirst ==
    (/\ last.op \in {"setup", "teardown", "destroy"}
     /\ ~(last.op = "teardown" /\ last.arg)
     /\ ~Truthy(last.pre))
        => (last.res = "DeviceError" /\ BeforeError = {})

\* destroy() of a LUKS device that does not exist has torn down the format and
\* waited for udev by the time teardown() refuses.
C23_LuksFormatTornDown ==
    /\ last.op = "destroy"
    /\ kind[last.dev] = "luks"
    /\ ~Truthy(last.pre)
    /\ last.res = "DeviceError"
    /\ \E i \in 1..Len(calls) : calls[i] = Ev("format.teardown", last.dev)
    /\ \E i \in 1..Len(calls) : calls[i] = Ev("udev_settle", last.dev)

\* ------------------------------------------------------------------------
\* udev settle after the calls that change the system
\* ------------------------------------------------------------------------
\* The tools of devices.py that create or activate a device node.  The commit
\* of a disk label is left out: whether it waits for udev is decided inside
\* DiskLabel.commit.
MutatingTools ==
    {"lvm.vgcreate", "lvm.lvcreate", "lvm.lvactivate", "mdraid.mdcreate",
     "mdraid.mdactivate"}

\* The steps that read what the tool has made: the size probe, setup() of the
\* new device and the update of its sysfs path.
DependentSteps == {"probeSize", "setup", "updateSysfsPath"}

Unsettled(i, j) ==
    /\ i < j
    /\ calls[i].e \in MutatingTools
    /\ calls[j].e \in DependentSteps
    /\ calls[j].d = calls[i].d
    /\ \A k \in (i + 1)..(j - 1) : calls[k].e # "udev_settle"

\* C24: within one operation, between a call of a mutating tool for a device
\* and the next step that depends on it (size probe, setup of the new
\* device, sysfs path update) there is a udev settle.
C24_SettledBeforeNextStep ==
    \A i, j \in 1..Len(calls) : ~Unsettled(i, j)

\* setup() of an inactive logical volume: lvactivate is followed at once by
\* the probe of the size.
C24_ProbedUnsettled ==
    /\ last.op = "setup"
    /\ last.res = "ok"
    /\ kind[last.dev] = "lv"
    /\ \E i \in 1..(Len(calls) - 1) :
          /\ calls[i] = Ev("lvm.lvactivate", last.dev)
          /\ calls[i + 1] = Ev("probeSize", last.dev)

\* ------------------------------------------------------------------------
\* Reading the size of a storage device
\* ------------------------------------------------------------------------
\* Device.mediaPresent is True; DiskDevice.mediaPresent asks parted.  (Arrays
\* and optical drives, which override it too, are not among the devices read.)
mediaPresent(d) ==
    IF kind[d] = "disk" THEN attrs[d].hasParted /\ attrs[d].partedSize # 0
    ELSE TRUE

\* What a read of the size returns, and the _size it leaves.
Read(v, s) == [val |-> v, size |-> s]

\* StorageDevice._getSize with the pending target returned for every device
StorageDevice_getSize_pending(d, sz, tg) ==
    IF Truthy(exists[d]) /\ ~mediaPresent(d) THEN Read(0, sz)
    ELSE LET stored == Refresh(sz, {d})
         IN  Read(IF tg[d] # stored[d] THEN tg[d] ELSE stored[d], stored)

StorageDevice_getSize(d, sz, tg) ==
    IF Truthy(exists[d]) /\ ~mediaPresent(d) THEN Read(0, sz)
    ELSE LET stored == Refresh(sz, {d})
         IN  Read(IF Truthy(exists[d]) /\ resizable(d) /\ tg[d] # stored[d]
                  THEN tg[d] ELSE stored[d],
                  stored)

QueryGraph ==
    [kind |-> [disk0 |-> "disk", pv0 |-> "storage", vg0 |-> "vg", lv0 |-> "lv"],
     parents |-> [disk0 |-> <<>>, pv0 |-> <<>>, vg0 |-> <<"pv0">>,
                  lv0 |-> <<"vg0">>],
     lvs |-> [disk0 |-> <<>>, pv0 |-> <<>>, vg0 |-> <<"lv0">>, lv0 |-> <<>>]]

\* The devices whose size is StorageDevice._getSize
Queried == {"disk0", "pv0", "lv0"}

\* A disk, a plain device and a logical volume, planned or existing, with or
\* without a device parted can open (only an existing device has one), whose
\* stored size, probed size and target size agree or differ.
InitQuery ==
    \E e \in {"False", "True"}, hp \in BOOLEAN, fr \in BOOLEAN,
       ps \in {0, 5}, s \in {3, 5}, t \in {3, 5, 7} :
        /\ Truthy(e) \/ ~hp
        /\ SizeGraph(QueryGraph, [d \in DOMAIN QueryGraph.kind |-> e])
        /\ size = [d \in DOMAIN QueryGraph.kind |-> s]
        /\ targetSize = [d \in DOMAIN QueryGraph.kind |-> t]
        /\ attrs = [d \in DOMAIN QueryGraph.kind |->
                        [DefaultAttrs EXCEPT !.hasParted = hp, !.partedSize = ps,
                                             !.fmtResizable = fr]]
        /\ calls = <<>>
        /\ last = NoOp
        /\ FormatIdle
        /\ rawCalls = 0

\* "d.size"
ReadSize(d) ==
    LET o == StorageDevice_getSize(d, size, targetSize)
    IN  /\ size' = o.size
        /\ last' = [op |-> "_getSize", dev |-> d, res |-> "ok", val |-> o.val,
                    pre |-> exists[d], cd |-> "n/a", kidsPre |-> <<>>,
                    arg |-> size[d]]
        /\ UNCHANGED <<gvars, calls, fvars, rawCalls, targetSize, attrs>>

\* "d.targetSize = n"
PlanSize(d, n) ==
    /\ targetSize' = [targetSize EXCEPT ![d] = n]
    /\ last' = [op |-> "_setTargetSize", dev |-> d, res |-> "ok", val |-> n,
                pre |-> exists[d], cd |-> "n/a", kidsPre |-> <<>>,
                arg |-> n]
    /\ UNCHANGED <<gvars, calls, fvars, rawCalls, size, attrs>>

ReadSizeAny == \E d \in Queried : ReadSize(d)

PlanSizeAny == \E d \in Queried, n \in {3, 5, 7} : PlanSize(d, n)

NextQuery == ReadSizeAny \/ PlanSizeAny

SpecQuery == InitQuery /\ [][NextQuery]_vars

\* The device of the last read exists and parted has a device for it.
Probed(d) == exists[d] = "True" /\ attrs[d].hasParted

\* C25: a read of the size returns 0 for an existing device without medium
\* and leaves the stored size alone; otherwise the stored size is the probed
\* size when the device exists and can be probed (else what it was, kept in
\* last.arg), and the result is targetSize when the device exists, is
\* resizable and targetSize differs from the stored size, and the stored
\* size in every other case.
C25_SizePrecedence ==
    last.op = "_getSize" =>
        LET d == last.dev
            noMedium == kind[d] = "disk" /\ ~(attrs[d].hasParted /\ attrs[d].partedSize # 0)
            canResize == kind[d] = "lv" /\ attrs[d].fmtResizable
        IN  IF exists[d] = "True" /\ noMedium
            THEN last.val = 0 /\ size[d] = last.arg
            ELSE /\ size[d] = IF Probed(d) THEN attrs[d].partedSize ELSE last.arg
                 /\ last.val = IF exists[d] = "True" /\ canResize
                                    /\ targetSize[d] # size[d]
                                THEN targetSize[d] ELSE size[d]

\* A differing target size of an existing device that cannot be resized was
\* ignored after the stored size had been refreshed from the probe.
C25_PendingIgnored ==
    /\ last.op = "_getSize"
    /\ last.dev = "pv0"
    /\ Probed("pv0")
    /\ last.arg # attrs["pv0"].partedSize
    /\ size["pv0"] = attrs["pv0"].partedSize
    /\ targetSize["pv0"] # size["pv0"]
    /\ last.val = size["pv0"]

\* ------------------------------------------------------------------------
\* Multipath devices
\* ------------------------------------------------------------------------
\* The largest number of paths a multipath device is given.
MaxPaths == 3

\* MultipathDevice.setup over the parent list ps; active is what
\* DMDevice.status answers when setup() asks.
MultipathDevice_setup(d, ps, active, env, ex) ==
    Then(Call("setup", d),
         IF active THEN Ok(<<>>)
         ELSE IF ~Truthy(ex[d]) THEN Raise("DeviceError", <<>>)
         ELSE Then(setupAll(ps, FALSE, env, ex),
              Then(Ok(parentFormatSetup(ps, FALSE) \o <<Ev("udev_settle", d)>>),
              Then(Tool("multipath", d, "MPathError", env),
              Then(Call("udev_settle", d),
              Then(Tool("kpartx", d, "MPathError", env),
                   Ok(<<Ev("udev_settle", d), Ev("udev_settle", d)>>)))))))

\* What addParent leaves: the outcome and the parent list.
Added(o, ps) == [res |-> o.res, calls |-> o.calls, parents |-> ps]

\* MultipathDevice.addParent without the look at status
MultipathDevice_addParent_blind(d, p, env, again, ex) ==
    Added(Call("parents.append", d), Append(parents[d], p))

\* MultipathDevice.addParent.  teardown() is the StorageDevice one for this
\* class and does not remove the map, but the map is the system's: again is
\* what status answers when setup() asks.
MultipathDevice_addParent(d, p, env, again, ex) ==
    LET ps == Append(parents[d], p)
    IN  IF env.status
        THEN LET t == teardown(d, FALSE, env, ex)
             IN  IF t.res # "ok" THEN Added(t, parents[d])
                 ELSE Added(Then(t, Then(Call("parents.append", d),
                                         MultipathDevice_setup(d, ps, again, env, ex))),
                            ps)
        ELSE Added(Call("parents.append", d), ps)

\* A multipath device (always constructed with exists=True) on one or two of
\* three disks.
InitMpath ==
    \E ps \in {<<"disk0">>, <<"disk0", "disk1">>, <<"disk1", "disk0">>} :
        /\ kind = [disk0 |-> "disk", disk1 |-> "disk", disk2 |-> "disk",
                   mp0 |-> "mpath"]
        /\ parents = [disk0 |-> <<>>, disk1 |-> <<>>, disk2 |-> <<>>, mp0 |-> ps]
        /\ kids = [d \in {"disk0", "disk1", "disk2", "mp0"} |->
                      IF d # "mp0" /\ In(d, ps) THEN 1 ELSE 0]
        /\ exists = [d \in {"disk0", "disk1", "disk2", "mp0"} |-> "True"]
        /\ sysfsPath = [d \in {"disk0", "disk1", "disk2", "mp0"} |-> TRUE]
        /\ lvs = [d \in {"disk0", "disk1", "disk2", "mp0"} |-> <<>>]
        /\ pvCount = [d \in {"disk0", "disk1", "disk2", "mp0"} |-> 0]
        /\ hasDuplicate = [d \in {"disk0", "disk1", "disk2", "mp0"} |-> FALSE]
        /\ calls = <<>>
        /\ last = NoOp
        /\ FormatIdle
        /\ rawCalls = 0
        /\ SizeIdle

\* d.addParent(p): the list is appended to directly, p.addChild() is not
\* called.
AddParent(d, p) ==
    \E env \in Envs, again \in BOOLEAN :
        LET o == MultipathDevice_addParent(d, p, env, again, exists)
        IN  /\ Len(parents[d]) < MaxPaths
            /\ parents' = [parents EXCEPT ![d] = o.parents]
            /\ calls' = o.calls
            /\ last' = [op |-> "addParent", dev |-> d, res |-> o.res,
                        pre |-> exists[d], cd |-> "n/a", kidsPre |-> kids,
                        arg |-> p, active |-> env.status, prev |-> parents[d]]
            /\ UNCHANGED <<kind, kids, exists, sysfsPath, lvs, pvCount, hasDuplicate>>
            /\ UNCHANGED <<fvars, rawCalls, svars>>

AddParentAny ==
    \E d \in {x \in DOMAIN kind : kind[x] = "mpath"},
       p \in {x \in DOMAIN kind : kind[x] = "disk"} : AddParent(d, p)

NextMpath == \/ AddParentAny

SpecMpath == InitMpath /\ [][NextMpath]_vars

\* Where the last operation called n on its device
At(n) == {i \in 1..Len(calls) : calls[i] = Ev(n, last.dev)}

\* C26: addParent(p) on an active multipath device calls teardown(), then
\* appends p, then calls setup(), each once and in that order; on an inactive
\* one it only appends p; either way the parent list is the previous list
\* with p after its last entry.
C26_AddParentOrder ==
    last.op = "addParent" =>
        /\ parents[last.dev] = Append(last.prev, last.arg)
        /\ IF last.active
           THEN /\ calls[1] = Ev("teardown", last.dev)
                /\ Cardinality(At("teardown")) = 1
                /\ Cardinality(At("parents.append")) = 1
                /\ Cardinality(At("setup")) = 1
                /\ \A j \in At("parents.append") : \A k \in At("setup") : k = j + 1
           ELSE /\ calls = <<Ev("parents.append", last.dev)>>
                /\ last.res = "ok"

\* A third path was added to an active device whose format had to be torn
\* down first.
C26_ActiveRebuilt ==
    /\ last.op = "addParent"
    /\ last.active
    /\ last.res = "ok"
    /\ parents[last.dev] = <<"disk1", "disk0", "disk2">>
    /\ calls[2] = Ev("originalFormat.teardown", last.dev)

\* ------------------------------------------------------------------------
\* create() of a logical volume against the live free space of its group
\* ------------------------------------------------------------------------
\* "d.create()" on a logical volume, with what lvm.vginfo reported (last.arg)
\* and the size the volume had when create() was called (last.val).
CreateFitted(d) ==
    /\ d \in DOMAIN kind /\ kind[d] \in LVKinds
    /\ \E env \in ResizeEnvs, canUse \in VolFree :
          LET o == LVMLogicalVolumeDevice_createSized(d, env, canUse)
          IN  /\ exists' = applyMarks(exists, o.calls)
              /\ size' = o.size
              /\ targetSize' = o.targetSize
              /\ attrs' = o.attrs
              /\ calls' = o.calls
              /\ last' = [op |-> "create", dev |-> d, res |-> o.res,
                          pre |-> exists[d], cd |-> "n/a", kidsPre |-> <<>>,
                          arg |-> canUse, val |-> getSize(d, size, targetSize)]
              /\ UNCHANGED <<kind, parents, kids, sysfsPath, lvs, pvCount, hasDuplicate>>
              /\ UNCHANGED <<fvars, rawCalls>>

CreateFittedAny == \E d \in DOMAIN VolCatalogue : CreateFitted(d)

NextFit == ConstructLvAny \/ CreateFittedAny

SpecFit == InitVolumes /\ [][NextFit]_vars

\* Where the last operation called the tool that creates the volume
CreateCalls ==
    {i \in 1..Len(calls) : calls[i].e \in {"lvm.lvcreate", "lvm.thinpoolcreate"}}

\* C27: create() of a logical volume or thin pool that is not there yet asks
\* for the live free space of the group before it calls the creating tool;
\* when the volume is larger than the reported free space, create() does not
\* fail on the adjustment, and the size the tool is called with is at most
\* the reported free space.
C27_FittedCreate ==
    (/\ last.op = "create"
     /\ kind[last.dev] \in {"lv", "thinpool"}
     /\ ~Truthy(last.pre)
     /\ last.arg # <<>>)
        => /\ \A i \in CreateCalls :
                \E j \in 1..(i - 1) : calls[j] = Ev("lvm.vginfo", last.dev)
           /\ last.val > last.arg[1] =>
                /\ last.res # "ValueError"
                /\ CreateCalls # {} =>
                      getSize(last.dev, size, targetSize) <= last.arg[1]

\* The volume was larger than the live free space, the size setter refused
\* the smaller size, and create() ended with its ValueError before the tool
\* was called.
C27_FitRefused ==
    /\ last.op = "create"
    /\ ~Truthy(last.pre)
    /\ last.arg # <<>>
    /\ last.val > last.arg[1]
    /\ last.res = "ValueError"
    /\ CreateCalls = {}
    /\ size[last.dev] = last.val

\* ------------------------------------------------------------------------
\* destroy() of a volume group and its physical volumes
\* ------------------------------------------------------------------------
\* Where the last operation called a tool that removes the volume group
Removals == {i \in 1..Len(calls) : calls[i].e \in {"lvm.vgreduce", "lvm.vgremove"}}

\* setup(orig=True) of the partition p returned before call i: the call was
\* announced, and its last step, the setup of the original format of the
\* disk below, has followed.
SetUpOriginal(p, i) ==
    \E j, k \in 1..(i - 1) :
        /\ j < k
        /\ calls[j] = Ev("setup", p)
        /\ calls[k] = Ev("originalFormat.setup", parents[p][1])
        /\ \A m \in j..k : calls[m].e # "format.setup"

\* C28: when destroy() of a volume group has called vgreduce or vgremove,
\* every member physical volume was set up with orig=True before the first
\* of these calls; so none of them is issued when the setup of a member
\* fails.
C28_MembersSetUpFirst ==
    (last.op = "destroy" /\ kind[last.dev] = "vg") =>
        \A i \in Removals :
            \A n \in 1..Len(parents[last.dev]) :
                SetUpOriginal(parents[last.dev][n], i)

\* A group with two members was removed.
C28_TwoMembersRemoved ==
    /\ last.op = "destroy"
    /\ kind[last.dev] = "vg"
    /\ last.res = "ok"
    /\ Len(parents[last.dev]) = 2
    /\ \E i \in Removals : calls[i].e = "lvm.vgremove"

\* ------------------------------------------------------------------------
\* MD RAID arrays: spares and member counts
\* ------------------------------------------------------------------------
\* MDRaidArrayDevice.totalDevices
totalDevices(d, at) ==
    IF Truthy(exists[d]) THEN Len(parents[d]) ELSE at[d].totalDevices

\* MDRaidArrayDevice._getSpares (the counts are numbers, never None)
MDRaidArrayDevice_getSpares(d, at) ==
    IF totalDevices(d, at) > at[d].memberDevices
    THEN totalDevices(d, at) - at[d].memberDevices
    ELSE 0

\* What an assignment leaves: how it ended, and the attributes.
Assigned(res, at) == [res |-> res, attrs |-> at]

\* MDRaidArrayDevice._setMemberDevices with a whole number
MDRaidArrayDevice_setMemberDevices(d, number) ==
    IF number > totalDevices(d, attrs) THEN Assigned("ValueError", attrs)
    ELSE Assigned("ok", [attrs EXCEPT ![d].memberDevices = number])

\* MDRaidArrayDevice._setSpares without its comparison with totalDevices
MDRaidArrayDevice_setSpares_unguarded(d, spares) ==
    MDRaidArrayDevice_setMemberDevices(d, totalDevices(d, attrs) - spares)

MDRaidArrayDevice_setSpares(d, spares) ==
    IF totalDevices(d, attrs) > spares
    THEN MDRaidArrayDevice_setMemberDevices(d, totalDevices(d, attrs) - spares)
    ELSE Assigned("ok", attrs)

\* Mirrors, planned or found, on two to four members.
InitSpares ==
    /\ InitRaid
    /\ attrs["md0"].level = "RAID1"
    /\ attrs["md0"].metadataVersion = "1.0"
    /\ size["m0"] = 100

\* "array.spares"
ReadSpares(d) ==
    /\ kind[d] = "md"
    /\ last' = [op |-> "_getSpares", dev |-> d, res |-> "ok",
                val |-> MDRaidArrayDevice_getSpares(d, attrs), pre |-> "n/a",
                cd |-> "n/a", kidsPre |-> <<>>, arg |-> 0,
                prev |-> attrs[d].memberDevices]
    /\ UNCHANGED <<gvars, fvars, svars, rawCalls, calls>>

\* "array.spares = s"; last.val is what array.spares reads afterwards,
\* last.prev the memberDevices before.
SetSpares(d, s) ==
    /\ kind[d] = "md"
    /\ LET o == MDRaidArrayDevice_setSpares(d, s)
       IN  /\ attrs' = o.attrs
           /\ last' = [op |-> "_setSpares", dev |-> d, res |-> o.res,
                       val |-> MDRaidArrayDevice_getSpares(d, o.attrs),
                       pre |-> "n/a", cd |-> "n/a", kidsPre |-> <<>>, arg |-> s,
                       prev |-> attrs[d].memberDevices]
    /\ UNCHANGED <<gvars, fvars, size, targetSize, rawCalls, calls>>

ReadSparesAny == \E d \in DOMAIN kind : ReadSpares(d)

SetSparesAny == \E d \in DOMAIN kind, s \in (-1)..(MaxMembers + 1) : SetSpares(d, s)

NextSpares == ReadSparesAny \/ SetSparesAny

SpecSpares == InitSpares /\ [][NextSpares]_vars

\* C29: spares reads totalDevices - memberDevices when totalDevices is the
\* larger and 0 otherwise.  Setting spares to s with 0 <= s < totalDevices
\* sets memberDevices to totalDevices - s, and spares reads s afterwards;
\* s >= totalDevices is ignored and a negative s is refused with ValueError,
\* memberDevices staying what it was in both cases.
C29_Spares ==
    LET d == last.dev
        t == totalDevices(d, attrs)
        m == attrs[d].memberDevices
    IN  /\ last.op = "_getSpares" => last.val = IF t > m THEN t - m ELSE 0
        /\ last.op = "_setSpares" =>
              IF 0 <= last.arg /\ last.arg < t
              THEN last.res = "ok" /\ m = t - last.arg /\ last.val = last.arg
              ELSE /\ m = last.prev
                   /\ last.res = IF last.arg < 0 THEN "ValueError" ELSE "ok"

\* One spare was asked for in an array of four whose member count was
\* another before.
C29_OneSpare ==
    /\ last.op = "_setSpares"
    /\ last.arg = 1
    /\ totalDevices(last.dev, attrs) = 4
    /\ attrs[last.dev].memberDevices = 3
    /\ last.prev # 3
    /\ last.val = 1

\* C29 as stated: after spares has been set to s, whatever s is,
\* memberDevices is totalDevices - s and spares reads s.
C29_AnySparesReadBack ==
    last.op = "_setSpares" =>
        /\ attrs[last.dev].memberDevices = totalDevices(last.dev, attrs) - last.arg
        /\ last.val = last.arg

\* ------------------------------------------------------------------------
\* MD RAID arrays: the superblock size
\* ------------------------------------------------------------------------
\* C30: for an array with metadata version 1.1 or 1.2, whatever its level,
\* member count and member sizes (last.arg is its raw array size), reading
\* superBlockSize returns, and returns at most 128 MB.
C30_SuperBlockSizeReturns ==
    (/\ last.op = "superBlockSize"
     /\ attrs[last.dev].metadataVersion \in {"1.1", "1.2"})
        => (last.res = "ok" /\ last.val <= 128)

\* An array constructed without a member count (memberDevices is 0) at
\* level 5 has a raw size below zero, and the loop that halves the headroom
\* does not end.
C30_HeadroomLoopsForever ==
    /\ last.op = "superBlockSize"
    /\ attrs[last.dev].level = "RAID5"
    /\ attrs[last.dev].memberDevices = 0
    /\ ~Truthy(exists[last.dev])
    /\ last.arg < 0
    /\ last.res = "never returns"

\* ------------------------------------------------------------------------
\* The formats of the members of a volume group
\* ------------------------------------------------------------------------
\* "isinstance(device.format, self.pvClass)"
holdsPV(device) == attrs[device].fmtType = "lvmpv"

\* A disk with two partitions, each formatted as a physical volume or as a
\* filesystem; no volume group yet.
InitMembers ==
    \E f1, f2 \in {"lvmpv", "ext4"} :
        /\ kind = [sda |-> "disk", p1 |-> "partition", p2 |-> "partition"]
        /\ parents = [sda |-> <<>>, p1 |-> <<"sda">>, p2 |-> <<"sda">>]
        /\ kids = [sda |-> 2, p1 |-> 0, p2 |-> 0]
        /\ exists = [sda |-> "True", p1 |-> "True", p2 |-> "True"]
        /\ sysfsPath = [sda |-> TRUE, p1 |-> TRUE, p2 |-> TRUE]
        /\ lvs = [sda |-> <<>>, p1 |-> <<>>, p2 |-> <<>>]
        /\ pvCount = [sda |-> 0, p1 |-> 0, p2 |-> 0]
        /\ hasDuplicate = [sda |-> FALSE, p1 |-> FALSE, p2 |-> FALSE]
        /\ size = <<>>
        /\ targetSize = <<>>
        /\ attrs = [sda |-> [fmtType |-> "disklabel"], p1 |-> [fmtType |-> f1],
                    p2 |-> [fmtType |-> f2]]
        /\ calls = <<>>
        /\ last = NoOp
        /\ FormatIdle
        /\ rawCalls = 0

\* LVMVolumeGroupDevice("vg0", parents=ps, exists=e, pvCount=pvc)
ConstructGroup(ps) ==
    /\ "vg0" \notin DOMAIN kind
    /\ \E e \in {"False", "True"}, pvc \in {Len(ps), Len(ps) + 1} :
          GraphStep(LVMVolumeGroupDevice_init("vg0", ps, e,
                                              \A i \in 1..Len(ps) : holdsPV(ps[i]),
                                              pvc),
                    "__init__", "vg0")
    /\ UNCHANGED <<fvars, rawCalls, svars>>

\* vg._addDevice(device), the format of the device being what it is
AddMember(d, device) ==
    /\ d \in DOMAIN kind /\ kind[d] = "vg"
    /\ \E hasUuid \in BOOLEAN, uuidDiffers \in BOOLEAN, setupOk \in BOOLEAN :
          LET g == LVMVolumeGroupDevice_addDevice(d, device, holdsPV(device),
                                                  hasUuid, uuidDiffers, setupOk)
          IN  /\ GraphStep(g, "_addDevice", d)
    /\ UNCHANGED <<fvars, rawCalls, svars>>

ConstructGroupAny ==
    \E ps \in {<<>>, <<"p1">>, <<"p2">>, <<"p1", "p2">>} : ConstructGroup(ps)

AddMemberAny == \E d \in DOMAIN kind, device \in {"p1", "p2"} : AddMember(d, device)

NextMembers ==
    \/ ConstructGroupAny
    \/ AddMemberAny
    \/ AddPVAny
    \/ RemovePVAny
    \/ RemoveDeviceAny

SpecMembers == InitMembers /\ [][NextMembers]_vars

\* C31: in every state every parent of a volume group holds a physical
\* volume format.
C31_ParentsHoldPV ==
    \A d \in DOMAIN kind :
        kind[d] = "vg" => \A i \in 1..Len(parents[d]) : holdsPV(parents[d][i])

\* _addPV returned normally and the group has a member that holds a
\* filesystem.
C31_FilesystemAdded ==
    /\ last.op = "_addPV"
    /\ last.res = "ok"
    /\ \E i \in 1..Len(parents[last.dev]) : ~holdsPV(parents[last.dev][i])

\* ------------------------------------------------------------------------
\* The duplicate mark of a volume group over its life
\* ------------------------------------------------------------------------
\* vg.setup(), vg.teardown(), vg.create(), vg.destroy()
GroupSetup(d) == kind[d] = "vg" /\ Setup(d)

GroupTeardown(d) == kind[d] = "vg" /\ Teardown(d)

GroupCreate(d) == kind[d] = "vg" /\ Create(d)

GroupDestroy(d) == kind[d] = "vg" /\ DestroyCall(d)

GroupSetupAny == \E d \in DOMAIN kind : GroupSetup(d)

GroupTeardownAny == \E d \in DOMAIN kind : GroupTeardown(d)

GroupCreateAny == \E d \in DOMAIN kind : GroupCreate(d)

GroupDestroyAny == \E d \in DOMAIN kind : GroupDestroy(d)

NextGroupLife ==
    \/ ConstructGroupAny
    \/ AddMemberAny
    \/ AddPVAny
    \/ RemovePVAny
    \/ RemoveDeviceAny
    \/ GroupSetupAny
    \/ GroupTeardownAny
    \/ GroupCreateAny
    \/ GroupDestroyAny

SpecGroupLife == InitMembers /\ [][NextGroupLife]_vars

ListedBy(d) == Occurrences(parents, d)

\* C33: each device's child count equals the number of occurrences of the
\* device in the parent lists of all other devices.
C33_KidsMatchParents == \A d \in DOMAIN kids : kids[d] = ListedBy(d)

\* addParent returned normally and the disk it added is listed by the
\* multipath device without having been told of the child.
C33_UncountedPath ==
    /\ last.op = "addParent"
    /\ last.res = "ok"
    /\ In(last.arg, parents[last.dev])
    /\ ~In(last.arg, last.prev)
    /\ kids[last.arg] = 0
    /\ ListedBy(last.arg) = 1

\* ------------------------------------------------------------------------
\* Constructors that raise
\* ------------------------------------------------------------------------
\* C34: when constructing a logical volume fails, the child count of every
\* intended parent and the LV list of the volume group are the same as before
\* the call.
C34_FailedInitLeavesGraph ==
    [][(last'.op = "__init__" /\ last'.res # "ok") => (kids' = kids /\ lvs' = lvs)]_vars

\* The constructor of a logical volume was refused by _addLogVol for lack
\* of space: the volume is in no list, and the group counts a child more
\* than the volumes that name it as parent.
C34_ChildLeftCounted ==
    /\ last.op = "__init__"
    /\ last.res \notin {"ok", "ValueError"}
    /\ last.dev \notin DOMAIN kind
    /\ ~In(last.dev, lvs["vg0"])
    /\ kids["vg0"] = ListedBy("vg0") + 1

\* ------------------------------------------------------------------------
\* New logical volumes, mirrored or not, in a group that does not grow
\* ------------------------------------------------------------------------
\* The most children the group counts before no further volume is
\* constructed.
MaxVolumes == 4

\* The sizes (MB) and numbers of copies the volumes are constructed with;
\* the extent size is DefaultPeSize.
MirrorSizes == {3, 4, 6, 8}

MirrorCopies == {1, 2}

\* LVMLogicalVolumeDevice.__init__ with the copies argument: self.copies is
\* assigned before _addLogVol is called, and _addLogVol reads lv.size only.
LVMLogicalVolumeDevice_init_copies(d, c, sz, n) ==
    LET b == LVMLogicalVolumeDevice_init(d, "lv", c, sz, "False")
    IN  IF b.res # "ok" THEN b
        ELSE [b EXCEPT !.attrs = [@ EXCEPT ![d].copies = n]]

\* A planned volume group of 16 or 24 MB on one PV that was not asked to
\* grow: nothing reserved, no snapshots, no logical volumes.
InitMirror ==
    \E pvSize \in {17, 25} :
        /\ kind = [pv0 |-> "storage", vg0 |-> "vg"]
        /\ parents = [pv0 |-> <<>>, vg0 |-> <<"pv0">>]
        /\ kids = [pv0 |-> 1, vg0 |-> 0]
        /\ exists = [pv0 |-> "True", vg0 |-> "False"]
        /\ sysfsPath = [pv0 |-> TRUE, vg0 |-> TRUE]
        /\ lvs = [pv0 |-> <<>>, vg0 |-> <<>>]
        /\ pvCount = [pv0 |-> 0, vg0 |-> 1]
        /\ hasDuplicate = [pv0 |-> FALSE, vg0 |-> FALSE]
        /\ size = [pv0 |-> pvSize, vg0 |-> 0]
        /\ targetSize = size
        /\ attrs = [pv0 |-> [DefaultAttrs EXCEPT !.peStart = 1],
                    vg0 |-> DefaultAttrs]
        /\ calls = <<>>
        /\ last = NoOp
        /\ FormatIdle
        /\ rawCalls = 0

\* "LVMLogicalVolumeDevice(d, c, size=sz, copies=n)"
ConstructMirror(d, c) ==
    /\ d \notin DOMAIN kind
    /\ kind[c] = "vg"
    /\ kids[c] < MaxVolumes
    /\ \E sz \in MirrorSizes, n \in MirrorCopies :
          /\ VolStep(LVMLogicalVolumeDevice_init_copies(d, c, sz, n), "__init__", d, <<>>)

ConstructMirrorAny == \E d \in {"lv0", "lv1", "lv2"} : ConstructMirror(d, "vg0")

NextMirror == \/ ConstructMirrorAny

SpecMirror == InitMirror /\ [][NextMirror]_vars

\* C35: in a volume group that does not grow, reserves nothing, has no
\* snapshots and starts empty, freeSpace is never negative after new logical
\* volumes were added.
C35_FreeSpaceNeverNegative ==
    \A vg \in DOMAIN kind :
        kind[vg] = "vg" => freeSpace(vg, size, targetSize) >= 0

\* A mirrored volume was accepted because its size fits, and its two copies
\* take more than the group has.
C35_MirrorOvercommits ==
    /\ last.op = "__init__"
    /\ last.res = "ok"
    /\ attrs[last.dev].copies = 2
    /\ ~growable("vg0")
    /\ size[last.dev] <= vgSize("vg0", size, targetSize)
    /\ freeSpace("vg0", size, targetSize) < 0

\* ------------------------------------------------------------------------
\* What destroy() leaves of the exists flag
\* ------------------------------------------------------------------------
\* C36: whenever destroy() on an existing device returns without raising,
\* the exists flag of the device is false afterwards.
C36_DestroyedIsGone ==
    (last.op = "destroy" /\ last.res = "ok" /\ last.pre = "True") =>
        exists[last.dev] = "False"

\* destroy() of an existing encrypted mapping returned normally after its
\* teardown, and the mapping still counts as existing.
C36_MappingStillExists ==
    /\ last.op = "destroy"
    /\ last.res = "ok"
    /\ last.pre = "True"
    /\ kind[last.dev] = "luks"
    /\ \E i \in 1..Len(calls) : calls[i] = Ev("teardown", last.dev)
    /\ exists[last.dev] = "True"

\* ------------------------------------------------------------------------
\* When create() marks the device as existing
\* ------------------------------------------------------------------------
\* The external call that makes a device of each kind
CreationCall(d) ==
    CASE kind[d] = "partition" -> "disklabel.commit"
      [] kind[d] = "vg" -> "lvm.vgcreate"
      [] kind[d] = "md" -> "mdraid.mdcreate"
      [] kind[d] = "thinpool" -> "lvm.thinpoolcreate"
      [] kind[d] = "thinlv" -> "lvm.thinlvcreate"
      [] OTHER -> "lvm.lvcreate"

\* C37: in create() of a partition, volume group, logical volume or RAID
\* array, exists is set only after the external creation call and the
\* device's own setup runs only after that; when create() raises before its
\* own setup was called (a parent is missing, a parent's setup failed, the
\* creation call failed) exists is what it was before the call; create()
\* never returns normally without having marked the device.
C37_ExistsAfterCreation ==
    (last.op = "create" /\ kind[last.dev] \in {"partition", "vg", "md"} \cup LVKinds) =>
        LET d == last.dev
            marks == At("exists=True")
            made == At(CreationCall(d))
            setups == At("setup")
        IN  /\ \A i \in marks : \E j \in made : j < i
            /\ \A k \in setups : \E i \in marks : i < k
            /\ (last.res # "ok" /\ setups = {}) =>
                   (marks = {} /\ exists[d] = last.pre)
            /\ (last.res # "ok" /\ made # {} /\ calls[Len(calls)] = Ev(CreationCall(d), d)) =>
                   marks = {}
            /\ marks = {} => last.res # "ok"

\* lvm.vgcreate failed in create() of a volume group whose parents exist and
\* were set up: the error left create(), the group is not marked and its
\* setup was not called.
C37_CreationFailed ==
    /\ last.op = "create"
    /\ kind[last.dev] = "vg"
    /\ last.res = "LVMError"
    /\ calls[Len(calls)] = Ev("lvm.vgcreate", last.dev)
    /\ \E i \in 1..Len(calls) : calls[i].e = "setup" /\ In(calls[i].d, parents[last.dev])
    /\ exists[last.dev] = last.pre
    /\ last.pre # "True"

\* ------------------------------------------------------------------------
\* setup() of a device that is active already
\* ------------------------------------------------------------------------
\* A multipath device on two disks
GraphMpath ==
    [kind |-> [disk0 |-> "disk", disk1 |-> "disk", mp0 |-> "mpath"],
     parents |-> [disk0 |-> <<>>, disk1 |-> <<>>, mp0 |-> <<"disk0", "disk1">>],
     lvs |-> [disk0 |-> <<>>, disk1 |-> <<>>, mp0 |-> <<>>]]

\* The graphs of the lifecycle with every device carrying the same exists
\* flag, and the multipath graph, whose devices exist.
InitActive ==
    \E g \in LifeGraphs \cup {GraphMpath} :
        /\ kind = g.kind
        /\ parents = g.parents
        /\ kids = [d \in DOMAIN g.kind |-> Occurrences(g.parents, d)]
        /\ exists \in { [d \in DOMAIN g.kind |-> e] :
                          e \in IF g = GraphMpath THEN {"True"}
                                ELSE {"None", "False", "True"} }
        /\ sysfsPath = [d \in DOMAIN g.kind |-> TRUE]
        /\ lvs = g.lvs
        /\ pvCount = [d \in DOMAIN g.kind |-> Len(g.parents[d])]
        /\ hasDuplicate = [d \in DOMAIN g.kind |-> FALSE]
        /\ calls = <<>>
        /\ last = NoOp
        /\ FormatIdle
        /\ rawCalls = 0
        /\ SizeIdle

\* d.setup(orig=orig); last.active is what the status property of d answers
\* when setup() asks.
SetupProbe(d) ==
    \E env \in Envs, orig \in BOOLEAN :
        LET active == status(d, env, exists)
            o == IF kind[d] = "mpath"
                 THEN MultipathDevice_setup(d, parents[d], active, env, exists)
                 ELSE setup(d, orig, env, exists)
        IN  /\ exists' = applyMarks(exists, o.calls)
            /\ calls' = o.calls
            /\ last' = [op |-> "setup", dev |-> d, res |-> o.res, pre |-> exists[d],
                        cd |-> "n/a", kidsPre |-> kids, arg |-> orig,
                        active |-> active]
            /\ kids' = applyChildCalls(kids, o.calls)
            /\ UNCHANGED <<kind, parents, sysfsPath, lvs, pvCount, hasDuplicate>>
            /\ UNCHANGED <<fvars, rawCalls, svars>>

SetupProbeAny == \E d \in DOMAIN kind : SetupProbe(d)

NextActive == \/ SetupProbeAny
              \/ TeardownAny

SpecActive == InitActive /\ [][NextActive]_vars

\* C38: setup() of an existing volume group, logical volume, RAID array or
\* multipath device whose status is active returns normally without setting
\* up a parent, without a call of an external tool, without probing the size
\* and without changing a field of any device.
C38_SetupOfActiveDoesNothing ==
    [][(/\ last'.op = "setup"
        /\ last'.active
        /\ last'.pre = "True"
        /\ kind[last'.dev] \in {"vg", "md", "mpath"} \cup LVKinds) =>
           (/\ last'.res = "ok"
            /\ calls' = <<Ev("setup", last'.dev)>>
            /\ UNCHANGED <<kind, parents, kids, exists, sysfsPath, lvs, pvCount,
                           hasDuplicate, fvars, rawCalls, svars>>)]_vars

\* setup() of an active logical volume returned at once, in an environment
\* where lvm.lvactivate would have failed.
C38_ActiveVolumeLeftAlone ==
    /\ last.op = "setup"
    /\ last.active
    /\ last.pre = "True"
    /\ kind[last.dev] = "lv"
    /\ last.res = "ok"
    /\ calls = <<Ev("setup", last.dev)>>

====
